---- MODULE Spec2Model ----
(***************************************************************************)
(* Model of the pipeline layer of epub2tts:                                *)
(*   - MLXKokoroModel.synthesize and its Metal-error degradation           *)
(*     (src/src/pipelines/tts_pipeline.py),                                *)
(*   - the retry loops of the ElevenLabs and Hume pipelines,               *)
(*   - the batch runners KokoroTTSPipeline.batch_process and               *)
(*     ImageDescriptionPipeline.batch_process_images,                      *)
(*   - PipelineOrchestrator.process_epub_complete,                         *)
(*   - ProgressTracker, the progress event bus                             *)
(*     (src/src/ui/progress_tracker.py), and the events the batch runners  *)
(*     put on it.                                                          *)
(* Each subsystem has its own next-state relation and specification over   *)
(* the shared state; the variables of the other subsystems stay at their   *)
(* initial values.                                                         *)
(***************************************************************************)
EXTENDS Integers, Sequences, FiniteSets, TLC

\* ------------------------------------------------------------------------
\* Bounds of the model (not program constants)
\* ------------------------------------------------------------------------
MaxCalls == 3
MaxApiCalls == 2
MaxItems == 3
MaxImages == 2
MaxChapters == 2
MaxThreads == 2
MaxEmits == 2
MaxStatEvents == 3
MaxTotal == 2
MaxTracked == 2
MaxGetterCalls == 1
MaxTokens == 2
MaxChapterTokens == 1
MaxRecentEmits == 12
MaxLimit == 3

\* ------------------------------------------------------------------------
\* Program constants
\* ------------------------------------------------------------------------
max_retries == 3
metal_error_limit == 3
api_max_retries == 3
kokoro_max_workers == 2
image_max_workers == 4
orchestrator_max_workers == 2
max_recent_events == 10
\* desc.confidence > 0.5, in tenths
confidence_threshold == 5

None == "None"

VARIABLES
    \* MLXKokoroModel instance
    degradation_level, metal_error_count, use_mlx_audio, force_sequential,
    \* one synthesize() call on that instance
    spc, attempt, attempts_made, nonmetal_failures, handled_in_call,
    last_path, last_failure, outcome, error_kind, calls,
    \* the statements the last iteration of the retry loop ran, in order
    iter_steps,
    \* _generate_audio_with_retry / _synthesize_with_retry
    api_pc, api_attempt, api_attempts_made, api_outcome, api_calls,
    api_last_failure,
    \* HumeTTSPipeline._synthesize_streaming_with_retry
    hs_pc, hs_attempt, hs_attempts_made, hs_outcome, hs_calls,
    hs_last_failure,
    \* KokoroTTSPipeline and one batch_process() call
    is_initialized, tb_pc, tb_n, tb_i, tb_chunk, tb_result, tb_results,
    tb_collected, tb_failed, tb_parallel,
    \* ImageDescriptionPipeline and one batch_process_images() call
    image_enabled, ib_pc, ib_n, ib_i, ib_image, ib_result, ib_descriptions,
    ib_collected, ib_failed,
    \* PipelineOrchestrator and one process_epub_complete() call
    has_tts_pipeline, has_image_pipeline, o_pc, enable_tts, enable_images,
    n_images, extraction, img_task, img_ret, tts_task, tts_ret,
    image_descriptions, tts_results, epub_success, o_exit, o_result,
    \* self.progress_tracker of the two batch pipelines: attached or None
    progress_tracker,
    \* ProgressTracker: _running, _events, _stats, _recent_events,
    \* _subscribers, _lock (its holder), _event_processor_thread
    running, events, stats, recent_events, subscribers, lock,
    event_processor_thread,
    \* the threads that run _process_events: position, event in hand,
    \* subscribers still to notify
    \* (the copy made by _notify_subscribers) and the position in that copy
    c_pc, c_event, c_subs, c_idx,
    \* the thread inside stop(); the last start()/stop() call made
    stop_pc, last_call,
    \* the subscribers whose callback raises
    raising,
    \* history: events emitted by each producer, events delivered to each
    \* subscriber, order of the stats updates, a join that timed out
    p_seq, delivered, applied, join_timed_out,
    \* history: the get_overall_stats() calls made, each with the stats it
    \* read and the dictionary it returned
    overall_returned,
    \* history: the get_recent_events() calls made, each with its arguments,
    \* the buffer it read and the list it returned
    recent_returned,
    \* one _integrate_image_descriptions() call: its position, the text
    \* and the chapter of epub_result, the descriptions, and the text and
    \* chapter of the ProcessingResult it returned
    int_pc, int_text, int_chapter, int_descs, int_updated_text,
    int_updated_chapter

backendVars == <<degradation_level, metal_error_count, use_mlx_audio,
                 force_sequential, spc, attempt, attempts_made,
                 nonmetal_failures, handled_in_call, last_path, last_failure,
                 outcome, error_kind, calls, iter_steps>>
apiVars == <<api_pc, api_attempt, api_attempts_made, api_outcome, api_calls,
             api_last_failure>>
streamVars == <<hs_pc, hs_attempt, hs_attempts_made, hs_outcome, hs_calls,
                hs_last_failure>>

ttsBatchVars == <<is_initialized, tb_pc, tb_n, tb_i, tb_chunk, tb_result,
                  tb_results, tb_collected, tb_failed, tb_parallel>>
imageBatchVars == <<image_enabled, ib_pc, ib_n, ib_i, ib_image, ib_result,
                    ib_descriptions, ib_collected, ib_failed>>

orchVars == <<has_tts_pipeline, has_image_pipeline, o_pc, enable_tts,
              enable_images, n_images, extraction, img_task, img_ret,
              tts_task, tts_ret, image_descriptions, tts_results,
              epub_success, o_exit, o_result>>

integrateVars == <<int_pc, int_text, int_chapter, int_descs,
                   int_updated_text, int_updated_chapter>>

\* The tracker without its queue
busRest == <<running, stats, recent_events, subscribers, lock,
             event_processor_thread, c_pc, c_event, c_subs, c_idx, stop_pc,
             last_call, raising, p_seq, delivered, applied, join_timed_out>>
busVars == <<progress_tracker, events, busRest>>

vars == <<backendVars, apiVars, streamVars, ttsBatchVars, imageBatchVars, orchVars,
          busVars, overall_returned, recent_returned, integrateVars>>

\* Frames: everything outside one subsystem
exceptBackend == <<apiVars, streamVars, ttsBatchVars, imageBatchVars,
                   orchVars, busVars, overall_returned, recent_returned, integrateVars>>
exceptApi == <<backendVars, streamVars, ttsBatchVars, imageBatchVars,
               orchVars, busVars, overall_returned, recent_returned, integrateVars>>
exceptStream == <<backendVars, apiVars, ttsBatchVars, imageBatchVars,
                  orchVars, busVars, overall_returned, recent_returned, integrateVars>>
\* the batch runners put events on the queue: their frames leave it out
exceptTtsBatch == <<backendVars, apiVars, streamVars, imageBatchVars, orchVars,
                    progress_tracker, busRest, overall_returned, recent_returned, integrateVars>>
exceptImageBatch == <<backendVars, apiVars, streamVars, ttsBatchVars, orchVars,
                      progress_tracker, busRest, overall_returned, recent_returned, integrateVars>>
exceptOrch == <<backendVars, apiVars, streamVars, ttsBatchVars,
                imageBatchVars, busVars, overall_returned, recent_returned, integrateVars>>
exceptBus == <<backendVars, apiVars, streamVars, ttsBatchVars,
               imageBatchVars, orchVars, progress_tracker, overall_returned, recent_returned, integrateVars>>
exceptGetters == <<backendVars, apiVars, streamVars, ttsBatchVars,
                   imageBatchVars, orchVars, busVars, integrateVars,
                   recent_returned>>
exceptRecentGetter == <<backendVars, apiVars, streamVars, ttsBatchVars,
                        imageBatchVars, orchVars, busVars, integrateVars,
                        overall_returned>>
exceptIntegrate == <<backendVars, apiVars, streamVars, ttsBatchVars,
                     imageBatchVars, orchVars, busVars, overall_returned, recent_returned>>

\* ------------------------------------------------------------------------
\* MLXKokoroModel (tts_pipeline.py)
\* ------------------------------------------------------------------------

\* What one call of the wrapped backend can do: return audio, or raise an
\* exception whose text matches a Metal keyword ("metal"), a transient
\* backend error ("transient"), or a configuration error ("fatal").
BackendResults == {"ok", "metal", "transient", "fatal"}

\* metal_keywords match of _handle_metal_error
IsMetalErrorAnyException(res) == res # "ok"
IsMetalError(res) == res = "metal"

\* The if/elif chain of synthesize that selects the synthesis method.
SelectPath(level, mlx, att) ==
    IF level = 0 /\ ~mlx THEN "direct"
    ELSE IF att = 0 /\ level = 0 /\ mlx THEN "mlx_audio"
    ELSE IF level <= 1 THEN "direct"
    ELSE "none"

\* Level written by _handle_metal_error when it handles the count-th
\* Metal error of the instance: self.degradation_level = 1.
LevelAfterMetalReset(level, count) == IF level >= 1 THEN 0 ELSE 1
LevelAfterMetalThreshold2(level, count) == IF count >= 2 THEN 1 ELSE level
LevelAfterMetal(level, count) == 1

\* _handle_metal_error: the new instance state and whether it returned True
\* (handled), returned False (not a Metal error) or raised.
HandleMetalErrorPerCall(res, level, mlx, count) ==
    IF IsMetalError(res)
    THEN IF handled_in_call + 1 >= metal_error_limit
         THEN [result |-> "raise", level |-> level, mlx |-> mlx,
               count |-> handled_in_call + 1]
         ELSE [result |-> "handled",
               level |-> LevelAfterMetal(level, handled_in_call + 1),
               mlx |-> FALSE, count |-> handled_in_call + 1]
    ELSE [result |-> "unhandled", level |-> level, mlx |-> mlx,
          count |-> count]
HandleMetalError(res, level, mlx, count) ==
    IF IsMetalError(res)
    THEN IF count + 1 >= metal_error_limit
         THEN [result |-> "raise", level |-> level, mlx |-> mlx,
               count |-> count + 1]
         ELSE [result |-> "handled",
               level |-> LevelAfterMetal(level, count + 1),
               mlx |-> FALSE, count |-> count + 1]
    ELSE [result |-> "unhandled", level |-> level, mlx |-> mlx,
          count |-> count]

\* for attempt in range(self.max_retries + 1)
InRangeOneMore(att) == att < max_retries + 2
InRange(att) == att < max_retries + 1

\* `continue` inside that loop: the next iteration
AttemptAfterContinueSame(att) == att
AttemptAfterContinue(att) == att + 1

\* The statements of one iteration of the retry loop, in the order they
\* run: _cleanup_metal_resources(), then the selected _try_* call (none at
\* level 2, where the else branch raises), then, for a Metal error, the
\* cleanup inside _handle_metal_error.
IterationStepsCleanupAfter(path, res) ==
    (IF path = "none" THEN <<>> ELSE <<"synthesis">>) \o <<"cleanup">>
IterationSteps(path, res) ==
    <<"cleanup">>
    \o (IF path = "none" THEN <<>> ELSE <<"synthesis">>)
    \o (IF IsMetalError(res) THEN <<"cleanup">> ELSE <<>>)

\* synthesize() is entered.
SynthesizeCall ==
    /\ spc = "idle"
    /\ iter_steps' = <<>>
    /\ calls < MaxCalls
    /\ spc' = "loop"
    /\ attempt' = 0
    /\ attempts_made' = 0
    /\ nonmetal_failures' = 0
    /\ handled_in_call' = 0
    /\ last_path' = "none"
    /\ last_failure' = "none"
    /\ outcome' = "pending"
    /\ error_kind' = "none"
    /\ calls' = calls + 1
    /\ UNCHANGED <<degradation_level, metal_error_count, use_mlx_audio,
                   force_sequential, exceptBackend>>

\* One iteration of the retry loop of synthesize(): cleanup, method
\* selection, the synthesis call with result res, and the except clause.
SynthesizeAttempt(res) ==
    LET path == SelectPath(degradation_level, use_mlx_audio, attempt)
        \* level >= 2 raises RuntimeError("All TTS methods failed") without
        \* calling a backend; the text matches no Metal keyword
        eff  == IF path = "none" THEN "transient" ELSE res
        h    == HandleMetalError(eff, degradation_level, use_mlx_audio,
                                 metal_error_count)
        next == AttemptAfterContinue(attempt)
    IN
    /\ spc = "loop"
    /\ last_path' = path
    /\ iter_steps' = IterationSteps(path, eff)
    /\ attempts_made' = IF path = "none" THEN attempts_made
                        ELSE attempts_made + 1
    /\ last_failure' = IF eff = "ok" THEN last_failure ELSE eff
    /\ degradation_level' = h.level
    /\ use_mlx_audio' = h.mlx
    /\ metal_error_count' = h.count
    /\ IF eff = "ok"
       THEN /\ spc' = "idle"
            /\ outcome' = "audio"
            /\ UNCHANGED <<attempt, nonmetal_failures, handled_in_call,
                           error_kind>>
       ELSE IF h.result = "raise"
       THEN \* RuntimeError("Too many Metal framework errors, TTS unavailable")
            /\ spc' = "idle"
            /\ outcome' = "error"
            /\ error_kind' = "too_many_metal"
            /\ UNCHANGED <<attempt, nonmetal_failures, handled_in_call>>
       ELSE IF h.result = "handled"
       THEN /\ handled_in_call' = handled_in_call + 1
            /\ UNCHANGED nonmetal_failures
            /\ IF ~InRange(next)
               THEN \* the loop is exhausted: "TTS synthesis failed unexpectedly"
                    /\ spc' = "idle"
                    /\ outcome' = "error"
                    /\ error_kind' = "unexpected"
                    /\ UNCHANGED attempt
               ELSE /\ attempt' = next
                    /\ UNCHANGED <<spc, outcome, error_kind>>
       ELSE /\ nonmetal_failures' = nonmetal_failures + 1
            /\ UNCHANGED handled_in_call
            /\ IF attempt = max_retries
               THEN \* "TTS synthesis failed after ... attempts"
                    /\ spc' = "idle"
                    /\ outcome' = "error"
                    /\ error_kind' = "exhausted"
                    /\ UNCHANGED attempt
               ELSE \* time.sleep(2 ** attempt), next iteration
                    /\ attempt' = attempt + 1
                    /\ UNCHANGED <<spc, outcome, error_kind>>
    /\ UNCHANGED <<force_sequential, calls, exceptBackend>>

\* ------------------------------------------------------------------------
\* ElevenLabsTTSPipeline._generate_audio_with_retry and
\* HumeTTSPipeline._synthesize_with_retry (same loop)
\* ------------------------------------------------------------------------
ApiResults == {"ok", "rate_limit", "auth", "quota", "invalid_voice", "other"}

\* errors re-raised at once by the except clause
ApiFatal(res) == res \in {"auth", "quota", "invalid_voice"}

\* range(self.config.max_retries)
ApiLoopBound == api_max_retries

ApiCall ==
    /\ api_pc = "idle"
    /\ api_calls < MaxApiCalls
    /\ api_pc' = "loop"
    /\ api_attempt' = 0
    /\ api_attempts_made' = 0
    /\ api_outcome' = "pending"
    /\ api_calls' = api_calls + 1
    /\ api_last_failure' = "none"
    /\ UNCHANGED exceptApi

ApiAttempt(res) ==
    /\ api_pc = "loop"
    /\ api_attempts_made' = api_attempts_made + 1
    /\ api_last_failure' = IF res = "ok" THEN api_last_failure ELSE res
    /\ IF res = "ok"
       THEN /\ api_pc' = "idle"
            /\ api_outcome' = "audio"
            /\ UNCHANGED api_attempt
       ELSE IF ApiFatal(res)
       THEN /\ api_pc' = "idle"
            /\ api_outcome' = "error"
            /\ UNCHANGED api_attempt
       ELSE IF res = "rate_limit"
       THEN \* sleep and continue; after the last iteration: raise last_exception
            IF api_attempt + 1 >= ApiLoopBound
            THEN /\ api_pc' = "idle"
                 /\ api_outcome' = "error"
                 /\ UNCHANGED api_attempt
            ELSE /\ api_attempt' = api_attempt + 1
                 /\ UNCHANGED <<api_pc, api_outcome>>
       ELSE IF api_attempt = ApiLoopBound - 1
            THEN /\ api_pc' = "idle"
                 /\ api_outcome' = "error"
                 /\ UNCHANGED api_attempt
            ELSE /\ api_attempt' = api_attempt + 1
                 /\ UNCHANGED <<api_pc, api_outcome>>
    /\ UNCHANGED <<api_calls, exceptApi>>

\* ------------------------------------------------------------------------
\* HumeTTSPipeline._synthesize_streaming_with_retry (use_streaming=True)
\* ------------------------------------------------------------------------

\* errors re-raised at once by the except clause of the streaming loop: only
\* the "authentication" / "unauthorized" branch is there
StreamingFatal(res) == res = "auth"

HumeStreamingCall ==
    /\ hs_pc = "idle"
    /\ hs_calls < MaxApiCalls
    /\ hs_pc' = "loop"
    /\ hs_attempt' = 0
    /\ hs_attempts_made' = 0
    /\ hs_outcome' = "pending"
    /\ hs_calls' = hs_calls + 1
    /\ hs_last_failure' = "none"
    /\ UNCHANGED exceptStream

HumeStreamingAttempt(res) ==
    /\ hs_pc = "loop"
    /\ hs_attempts_made' = hs_attempts_made + 1
    /\ hs_last_failure' = IF res = "ok" THEN hs_last_failure ELSE res
    /\ IF res = "ok"
       THEN /\ hs_pc' = "idle"
            /\ hs_outcome' = "audio"
            /\ UNCHANGED hs_attempt
       ELSE IF res = "rate_limit"
       THEN \* sleep and continue; after the last iteration: raise last_exception
            IF hs_attempt + 1 >= ApiLoopBound
            THEN /\ hs_pc' = "idle"
                 /\ hs_outcome' = "error"
                 /\ UNCHANGED hs_attempt
            ELSE /\ hs_attempt' = hs_attempt + 1
                 /\ UNCHANGED <<hs_pc, hs_outcome>>
       ELSE IF StreamingFatal(res)
       THEN /\ hs_pc' = "idle"
            /\ hs_outcome' = "error"
            /\ UNCHANGED hs_attempt
       ELSE IF hs_attempt = ApiLoopBound - 1
            THEN /\ hs_pc' = "idle"
                 /\ hs_outcome' = "error"
                 /\ UNCHANGED hs_attempt
            ELSE /\ hs_attempt' = hs_attempt + 1
                 /\ UNCHANGED <<hs_pc, hs_outcome>>
    /\ UNCHANGED <<hs_calls, exceptStream>>

\* ------------------------------------------------------------------------
\* ProgressEvent and the create_*_event helpers (progress_tracker.py)
\* ------------------------------------------------------------------------
PipelineType == {"tts", "image", "epub", "overall"}
EventType == {"start", "progress", "complete", "error", "info", "warning"}

\* ProgressEvent(pipeline, event_type, data). producer and seq stand for
\* timestamp and event_id: who emitted the event and which of its events
\* it is. data is the payload dictionary; its DOMAIN is the set of its keys.
ProgressEvent(pipeline, event_type, data, producer, seq) ==
    [pipeline |-> pipeline, event_type |-> event_type, data |-> data,
     producer |-> producer, seq |-> seq]

create_start_event(pipeline, total_items, current_item, producer, seq) ==
    ProgressEvent(pipeline, "start",
                  [total_items |-> total_items, current_item |-> current_item],
                  producer, seq)

\* kwargs are the extra keyword arguments that go into the payload
create_progress_event(pipeline, completed_items, current_item, kwargs, producer, seq) ==
    ProgressEvent(pipeline, "progress",
                  kwargs @@ [completed_items |-> completed_items,
                             current_item |-> current_item],
                  producer, seq)

create_complete_event(pipeline, current_item, producer, seq) ==
    ProgressEvent(pipeline, "complete", [current_item |-> current_item],
                  producer, seq)

create_error_event(pipeline, error_message, current_item, producer, seq) ==
    ProgressEvent(pipeline, "error",
                  [error_message |-> error_message,
                   current_item |-> current_item],
                  producer, seq)

\* self._events = Queue(): no maxsize, so put() never waits for room
PutBlocksWhenNotEmpty(q) == Len(q) >= 1
PutBlocks(q) == FALSE

\* self._events.put(event)
Put(q, e) == Append(q, e)

\* if self.progress_tracker: self.progress_tracker.emit_event(event)
EmitIfTracked(tracker, q, e) == IF tracker THEN Put(q, e) ELSE q

\* ------------------------------------------------------------------------
\* KokoroTTSPipeline.process_chunk / batch_process (tts_pipeline.py)
\* ------------------------------------------------------------------------
Items == 1..MaxItems

\* What the work of process_chunk can do for one chunk: produce and save the
\* audio, find the text empty after preprocessing, or raise (synthesize or
\* the file write raised).
ChunkOutcomes == {"ok", "empty", "exception"}

\* The TTSResult returned by process_chunk (item is the chunk's position in
\* the input list, kept to tell the results apart).
TTSResult(i, out) ==
    IF out = "ok"
    THEN [item |-> i, success |-> TRUE, error_message |-> None]
    ELSE IF out = "empty"
    THEN [item |-> i, success |-> FALSE,
          error_message |-> "Empty text after preprocessing"]
    ELSE [item |-> i, success |-> FALSE,
          error_message |-> "TTS processing failed for chunk"]

\* results.append(result)
AppendResultDropFailed(results, r) ==
    IF r.success THEN Append(results, r) ELSE results
AppendResult(results, r) == Append(results, r)

\* max_workers = min(2, len(text_chunks))
TtsMaxWorkers(n) == IF n < kokoro_max_workers THEN n ELSE kokoro_max_workers

\* parallel and len(text_chunks) > 1 and not getattr(model, 'force_sequential', False)
TtsUsesParallelIgnoreForce(parallel, n, forceSeq) == parallel /\ n > 1
TtsUsesParallel(parallel, n, forceSeq) == parallel /\ n > 1 /\ ~forceSeq

TtsRunning == {i \in 1..tb_n : tb_chunk[i] = "running"}
TtsWaiting == {i \in 1..tb_n : tb_chunk[i] = "waiting"}

\* batch_process(text_chunks, output_dir, parallel) is called with n chunks.
BatchProcess(n, parallel) ==
    /\ tb_pc = "idle"
    /\ ib_pc = "idle"
    /\ tb_n' = n
    /\ tb_parallel' = parallel
    /\ tb_i' = 1
    /\ tb_results' = <<>>
    /\ tb_collected' = {}
    /\ tb_failed' = {}
    /\ tb_result' = [i \in Items |-> None]
    /\ IF ~is_initialized
       THEN \* return []
            /\ tb_pc' = "done"
            /\ tb_chunk' = [i \in Items |-> "none"]
            /\ UNCHANGED events
       ELSE /\ tb_chunk' = [i \in Items |-> IF i <= n THEN "waiting" ELSE "none"]
            /\ tb_pc' = IF TtsUsesParallel(parallel, n, force_sequential)
                        THEN "parallel" ELSE "sequential"
            \* Emit start event for batch processing
            /\ events' = EmitIfTracked(progress_tracker, events,
                             create_start_event("tts", n, "batch",
                                                "batch_process", 0))
    /\ UNCHANGED <<is_initialized, exceptTtsBatch>>

\* process_chunk starts for chunk i: in the sequential loop for the chunk
\* of the current iteration, in the pool for the oldest submitted chunk
\* when a worker is free.
ProcessChunkBegin(i) ==
    /\ tb_pc \in {"sequential", "parallel"}
    /\ i \in 1..tb_n
    /\ tb_chunk[i] = "waiting"
    /\ tb_pc = "sequential" => i = tb_i
    /\ tb_pc = "parallel" =>
          /\ \A j \in TtsWaiting : i <= j
          /\ Cardinality(TtsRunning) < TtsMaxWorkers(tb_n)
    /\ tb_chunk' = [tb_chunk EXCEPT ![i] = "running"]
    \* Emit start event: total_items=1, current_item=chunk_id
    /\ events' = EmitIfTracked(progress_tracker, events,
                     create_start_event("tts", 1, "chunk",
                                        "process_chunk", i))
    /\ UNCHANGED <<is_initialized, tb_parallel, tb_pc, tb_n, tb_i, tb_result, tb_results,
                   tb_collected, tb_failed,
                   exceptTtsBatch>>

\* The event process_chunk emits when it ends: the completion event after
\* the file is written, the error event in the except clause, and none at
\* the return for text that is empty after preprocessing.
ChunkEndEvents(tracker, q, i, out) ==
    IF out = "ok"
    THEN EmitIfTracked(tracker, q,
             create_complete_event("tts", "chunk", "process_chunk", i))
    ELSE IF out = "exception"
    THEN EmitIfTracked(tracker, q,
             create_error_event("tts", "TTS processing failed for chunk",
                                "chunk", "process_chunk", i))
    ELSE q

\* The progress event of the collecting loops: completed_items=len(results),
\* total_items=len(text_chunks).
BatchProgressEvent(pipeline, done, n) ==
    create_progress_event(pipeline, done, "processed", [total_items |-> n],
                          "batch_process", done)

\* process_chunk returns for chunk i; every exception of the work is caught
\* by its except clause and turned into a failed TTSResult.
ProcessChunkEnd(i, out) ==
    /\ i \in 1..tb_n
    /\ tb_chunk[i] = "running"
    /\ tb_chunk' = [tb_chunk EXCEPT ![i] = "returned"]
    /\ tb_result' = [tb_result EXCEPT ![i] = TTSResult(i, out)]
    /\ tb_failed' = IF out = "ok" THEN tb_failed ELSE tb_failed \cup {i}
    /\ events' = ChunkEndEvents(progress_tracker, events, i, out)
    /\ UNCHANGED <<is_initialized, tb_parallel, tb_pc, tb_n, tb_i, tb_results,
                   tb_collected,
                   exceptTtsBatch>>

\* Sequential loop body after process_chunk returned: results.append(result).
SeqCollectAbortOnFailure ==
    /\ tb_pc = "sequential"
    /\ tb_i <= tb_n
    /\ tb_chunk[tb_i] = "returned"
    /\ IF tb_result[tb_i].success
       THEN /\ tb_results' = AppendResult(tb_results, tb_result[tb_i])
            /\ tb_collected' = tb_collected \cup {tb_i}
            /\ tb_i' = tb_i + 1
       ELSE /\ tb_results' = AppendResult(tb_results, tb_result[tb_i])
            /\ tb_collected' = tb_collected \cup {tb_i}
            /\ tb_i' = tb_n + 1
    /\ events' = EmitIfTracked(progress_tracker, events,
                     BatchProgressEvent("tts", Len(tb_results'), tb_n))
    /\ UNCHANGED <<is_initialized, tb_parallel, tb_pc, tb_n, tb_chunk, tb_result,
                   tb_failed,
                   exceptTtsBatch>>
SeqCollect ==
    /\ tb_pc = "sequential"
    /\ tb_i <= tb_n
    /\ tb_chunk[tb_i] = "returned"
    /\ tb_results' = AppendResult(tb_results, tb_result[tb_i])
    /\ tb_collected' = tb_collected \cup {tb_i}
    /\ tb_i' = tb_i + 1
    /\ events' = EmitIfTracked(progress_tracker, events,
                     BatchProgressEvent("tts", Len(tb_results'), tb_n))
    /\ UNCHANGED <<is_initialized, tb_parallel, tb_pc, tb_n, tb_chunk, tb_result,
                   tb_failed,
                   exceptTtsBatch>>

\* Parallel collection: as_completed yields a finished future i;
\* result = future.result(); results.append(result).
ParCollect(i) ==
    /\ tb_pc = "parallel"
    /\ i \in 1..tb_n
    /\ tb_chunk[i] = "returned"
    /\ i \notin tb_collected
    /\ tb_results' = AppendResult(tb_results, tb_result[i])
    /\ tb_collected' = tb_collected \cup {i}
    /\ events' = EmitIfTracked(progress_tracker, events,
                     BatchProgressEvent("tts", Len(tb_results'), tb_n))
    /\ UNCHANGED <<is_initialized, tb_parallel, tb_pc, tb_n, tb_i, tb_chunk, tb_result,
                   tb_failed,
                   exceptTtsBatch>>

\* The loop is over (sequential: all iterations done; parallel:
\* as_completed is exhausted and the executor has shut down): return results.
BatchProcessReturn ==
    /\ \/ tb_pc = "sequential" /\ tb_i > tb_n
       \/ tb_pc = "parallel" /\ tb_collected = 1..tb_n
    /\ tb_pc' = "done"
    /\ UNCHANGED <<is_initialized, tb_parallel, tb_n, tb_i, tb_chunk, tb_result,
                   tb_results, tb_collected, tb_failed, events,
                   exceptTtsBatch>>

\* ------------------------------------------------------------------------
\* ImageDescriptionPipeline.process_image / batch_process_images
\* (image_pipeline.py)
\* ------------------------------------------------------------------------

\* What process_image can do for one image: return the cached description,
\* generate one, or catch an exception of the work.
ImageOutcomes == {"cache_hit", "described", "error"}

\* The ImageDescription returned by process_image.
ImageDescription(i, out) ==
    IF out = "error"
    THEN [item |-> i, model_used |-> "error", confidence |-> 0,
          cache_hit |-> FALSE]
    ELSE [item |-> i, model_used |-> "vlm", confidence |-> 1,
          cache_hit |-> (out = "cache_hit")]

\* descriptions.append(description)
AppendDescription(descriptions, d) == Append(descriptions, d)

\* max_workers = min(4, len(image_list))
ImageMaxWorkers(n) == IF n < image_max_workers THEN n ELSE image_max_workers

\* parallel and len(image_list) > 1
ImageUsesParallel(parallel, n) == parallel /\ n > 1

ImagesRunning == {i \in 1..ib_n : ib_image[i] = "running"}
ImagesWaiting == {i \in 1..ib_n : ib_image[i] = "waiting"}

\* batch_process_images(image_list, parallel) is called with n images.
BatchProcessImages(n, parallel) ==
    /\ ib_pc = "idle"
    /\ tb_pc = "idle"
    /\ ib_n' = n
    /\ ib_i' = 1
    /\ ib_descriptions' = <<>>
    /\ ib_collected' = {}
    /\ ib_failed' = {}
    /\ ib_result' = [i \in Items |-> None]
    \* Emit start event for batch processing (before the enabled check)
    /\ events' = EmitIfTracked(progress_tracker, events,
                     create_start_event("image", n, "batch",
                                        "batch_process", 0))
    /\ IF ~image_enabled
       THEN \* "Image description disabled in configuration":
            \* ImageProcessingResult(success=True, descriptions=[], ...)
            /\ ib_pc' = "done"
            /\ ib_image' = [i \in Items |-> "none"]
       ELSE /\ ib_image' = [i \in Items |-> IF i <= n THEN "waiting" ELSE "none"]
            /\ ib_pc' = IF ImageUsesParallel(parallel, n)
                        THEN "parallel" ELSE "sequential"
    /\ UNCHANGED <<image_enabled, exceptImageBatch>>

\* process_image starts for image i.
ProcessImageBegin(i) ==
    /\ ib_pc \in {"sequential", "parallel"}
    /\ i \in 1..ib_n
    /\ ib_image[i] = "waiting"
    /\ ib_pc = "sequential" => i = ib_i
    /\ ib_pc = "parallel" =>
          /\ \A j \in ImagesWaiting : i <= j
          /\ Cardinality(ImagesRunning) < ImageMaxWorkers(ib_n)
    /\ ib_image' = [ib_image EXCEPT ![i] = "running"]
    \* Emit start event: total_items=1, current_item=Path(image_path).name
    /\ events' = EmitIfTracked(progress_tracker, events,
                     create_start_event("image", 1, "image",
                                        "process_image", i))
    /\ UNCHANGED <<image_enabled, ib_pc, ib_n, ib_i, ib_result,
                   ib_descriptions, ib_collected, ib_failed,
                   exceptImageBatch>>

\* The event process_image emits when it ends: the completion event for a
\* cache hit or a generated description, the error event in the except
\* clause.
ImageEndEvents(tracker, q, i, out) ==
    IF out = "error"
    THEN EmitIfTracked(tracker, q,
             create_error_event("image", "Error processing image", "image",
                                "process_image", i))
    ELSE EmitIfTracked(tracker, q,
             create_complete_event("image", "image", "process_image", i))

\* process_image returns for image i; an exception of the work is caught
\* and returned as an ImageDescription with model_used="error".
ProcessImageEnd(i, out) ==
    /\ i \in 1..ib_n
    /\ ib_image[i] = "running"
    /\ ib_image' = [ib_image EXCEPT ![i] = "returned"]
    /\ ib_result' = [ib_result EXCEPT ![i] = ImageDescription(i, out)]
    /\ ib_failed' = IF out = "error" THEN ib_failed \cup {i} ELSE ib_failed
    /\ events' = ImageEndEvents(progress_tracker, events, i, out)
    /\ UNCHANGED <<image_enabled, ib_pc, ib_n, ib_i, ib_descriptions,
                   ib_collected, exceptImageBatch>>

\* Sequential loop body after process_image returned.
SeqCollectImage ==
    /\ ib_pc = "sequential"
    /\ ib_i <= ib_n
    /\ ib_image[ib_i] = "returned"
    /\ ib_descriptions' = AppendDescription(ib_descriptions, ib_result[ib_i])
    /\ ib_collected' = ib_collected \cup {ib_i}
    /\ ib_i' = ib_i + 1
    /\ events' = EmitIfTracked(progress_tracker, events,
                     BatchProgressEvent("image", Len(ib_descriptions'), ib_n))
    /\ UNCHANGED <<image_enabled, ib_pc, ib_n, ib_image, ib_result,
                   ib_failed, exceptImageBatch>>

\* Parallel collection: as_completed yields a finished future i;
\* description = future.result(); descriptions.append(description).
ParCollectImage(i) ==
    /\ ib_pc = "parallel"
    /\ i \in 1..ib_n
    /\ ib_image[i] = "returned"
    /\ i \notin ib_collected
    /\ ib_descriptions' = AppendDescription(ib_descriptions, ib_result[i])
    /\ ib_collected' = ib_collected \cup {i}
    /\ events' = EmitIfTracked(progress_tracker, events,
                     BatchProgressEvent("image", Len(ib_descriptions'), ib_n))
    /\ UNCHANGED <<image_enabled, ib_pc, ib_n, ib_i, ib_image, ib_result,
                   ib_failed, exceptImageBatch>>

\* The loop is over: return ImageProcessingResult(success=True, descriptions).
BatchProcessImagesReturn ==
    /\ \/ ib_pc = "sequential" /\ ib_i > ib_n
       \/ ib_pc = "parallel" /\ ib_collected = 1..ib_n
    /\ ib_pc' = "done"
    /\ UNCHANGED <<image_enabled, ib_n, ib_i, ib_image, ib_result,
                   ib_descriptions, ib_collected, ib_failed, events,
                   exceptImageBatch>>

\* ------------------------------------------------------------------------
\* PipelineOrchestrator.process_epub_complete (orchestrator.py)
\* ------------------------------------------------------------------------

\* Confidence of a description in tenths (0.0, 0.5, 0.8)
ConfLevels == {0, 5, 8}

\* Lists of descriptions returned for m images: the confidence of each
DescriptionLists(m) == [1..m -> ConfLevels]

\* Result of EPUBProcessor.process_epub: a ProcessingResult with
\* success=True, one with success=False, or an exception.
ExtractionResults == {"ok", "failed", "raised"}

\* PipelineResult(...) as built at the three return statements
PipelineResult(success, tts, images) ==
    [epub_success |-> success, tts_results |-> tts,
     image_descriptions |-> images]

\* Statement order of process_epub_complete after a successful extraction.
NextPcJoinBeforeSubmit(pc) ==
    CASE pc = "submit_images" -> "join_images"
      [] pc = "join_images"   -> "submit_tts"
      [] pc = "submit_tts"    -> "join_tts"
      [] pc = "join_tts"      -> "integrate"
      [] pc = "integrate"     -> "final"
      [] OTHER                -> "returned"
NextPc(pc) ==
    CASE pc = "submit_images" -> "submit_tts"
      [] pc = "submit_tts"    -> "join_images"
      [] pc = "join_images"   -> "join_tts"
      [] pc = "join_tts"      -> "integrate"
      [] pc = "integrate"     -> "final"
      [] OTHER                -> "returned"

TasksRunning == {t \in {"images", "tts"} :
                    \/ t = "images" /\ img_task = "running"
                    \/ t = "tts" /\ tts_task = "running"}

\* process_epub_complete(epub_path, output_dir, enable_tts, enable_images)
ProcessEpubComplete(tts, images) ==
    /\ o_pc = "idle"
    /\ o_pc' = "extract"
    /\ enable_tts' = tts
    /\ enable_images' = images
    /\ UNCHANGED <<has_tts_pipeline, has_image_pipeline, n_images, extraction,
                   img_task, img_ret, tts_task, tts_ret, image_descriptions,
                   tts_results, epub_success, o_exit, o_result, exceptOrch>>

\* Stage 1: epub_processor.process_epub and the check of its success flag.
ExtractionIgnoreFailure(res, nimg) ==
    /\ o_pc = "extract"
    /\ extraction' = res
    /\ IF res = "raised"
       THEN /\ o_pc' = "returned"
            /\ o_exit' = "exception"
            /\ o_result' = PipelineResult(FALSE, None, None)
            /\ UNCHANGED <<n_images, epub_success>>
       ELSE /\ o_pc' = "submit_images"
            /\ epub_success' = (res = "ok")
            /\ n_images' = nimg
            /\ UNCHANGED <<o_exit, o_result>>
    /\ UNCHANGED <<has_tts_pipeline, has_image_pipeline, enable_tts,
                   enable_images, img_task, img_ret, tts_task, tts_ret,
                   image_descriptions, tts_results, exceptOrch>>
Extraction(res, nimg) ==
    /\ o_pc = "extract"
    /\ extraction' = res
    /\ IF res = "raised"
       THEN \* except Exception: PipelineResult(ProcessingResult(success=False))
            /\ o_pc' = "returned"
            /\ o_exit' = "exception"
            /\ o_result' = PipelineResult(FALSE, None, None)
            /\ UNCHANGED <<n_images, epub_success>>
       ELSE IF res = "failed"
       THEN \* if not epub_result.success: return PipelineResult(epub_result)
            /\ o_pc' = "returned"
            /\ o_exit' = "extraction_failed"
            /\ o_result' = PipelineResult(FALSE, None, None)
            /\ UNCHANGED <<n_images, epub_success>>
       ELSE /\ o_pc' = "submit_images"
            /\ epub_success' = TRUE
            /\ n_images' = nimg
            /\ UNCHANGED <<o_exit, o_result>>
    /\ UNCHANGED <<has_tts_pipeline, has_image_pipeline, enable_tts,
                   enable_images, img_task, img_ret, tts_task, tts_ret,
                   image_descriptions, tts_results, exceptOrch>>

\* if enable_images and self.image_pipeline and epub_result.image_info:
\*     futures['images'] = executor.submit(self._process_images_parallel, ...)
SubmitImages ==
    /\ o_pc = "submit_images"
    /\ o_pc' = NextPc(o_pc)
    /\ img_task' = IF enable_images /\ has_image_pipeline /\ n_images > 0
                   THEN "submitted" ELSE img_task
    /\ UNCHANGED <<has_tts_pipeline, has_image_pipeline, enable_tts,
                   enable_images, n_images, extraction, img_ret, tts_task,
                   tts_ret, image_descriptions, tts_results, epub_success,
                   o_exit, o_result, exceptOrch>>

\* if enable_tts and self.tts_pipeline:
\*     futures['tts'] = executor.submit(self._generate_tts_audio_parallel, ...)
SubmitTTS ==
    /\ o_pc = "submit_tts"
    /\ o_pc' = NextPc(o_pc)
    /\ tts_task' = IF enable_tts /\ has_tts_pipeline
                   THEN "submitted" ELSE tts_task
    /\ UNCHANGED <<has_tts_pipeline, has_image_pipeline, enable_tts,
                   enable_images, n_images, extraction, img_task, img_ret,
                   tts_ret, image_descriptions, tts_results, epub_success,
                   o_exit, o_result, exceptOrch>>

\* A pool worker starts _process_images_parallel.
ImagesTaskStart ==
    /\ img_task = "submitted"
    /\ Cardinality(TasksRunning) < orchestrator_max_workers
    /\ img_task' = "running"
    /\ UNCHANGED <<has_tts_pipeline, has_image_pipeline, o_pc, enable_tts,
                   enable_images, n_images, extraction, img_ret, tts_task,
                   tts_ret, image_descriptions, tts_results, epub_success,
                   o_exit, o_result, exceptOrch>>

\* What _process_images_parallel meets: the batch returns descriptions, no
\* image file is valid, or something inside its try block raises.
ImagesTaskOutcomes == {"descriptions", "no_valid_images", "raised"}

\* _process_images_parallel returns its dictionary; descs are the
\* descriptions of the batch, one for each valid image.
ImagesTaskFinish(out, descs) ==
    /\ img_task = "running"
    /\ Len(descs) <= n_images
    /\ img_task' = "done"
    /\ img_ret' = IF out = "descriptions"
                  THEN [success |-> TRUE, descriptions |-> descs]
                  ELSE [success |-> FALSE, descriptions |-> <<>>]
    /\ UNCHANGED <<has_tts_pipeline, has_image_pipeline, o_pc, enable_tts,
                   enable_images, n_images, extraction, tts_task, tts_ret,
                   image_descriptions, tts_results, epub_success, o_exit,
                   o_result, exceptOrch>>

\* A pool worker starts _generate_tts_audio_parallel.
TTSTaskStart ==
    /\ tts_task = "submitted"
    /\ Cardinality(TasksRunning) < orchestrator_max_workers
    /\ tts_task' = "running"
    /\ UNCHANGED <<has_tts_pipeline, has_image_pipeline, o_pc, enable_tts,
                   enable_images, n_images, extraction, img_task, img_ret,
                   tts_ret, image_descriptions, tts_results, epub_success,
                   o_exit, o_result, exceptOrch>>

\* What _generate_tts_audio meets: process_chapters returns its summary, or
\* something raises and it returns None.
TTSTaskOutcomes == {"summary", "raised"}

\* _generate_tts_audio_parallel returns its dictionary; k is the number of
\* successful chapters in the summary of process_chapters.
TTSTaskFinish(out, k) ==
    /\ tts_task = "running"
    /\ tts_task' = "done"
    /\ tts_ret' = IF out = "summary"
                  THEN [success |-> TRUE,
                        results |-> [successful_chapters |-> k]]
                  ELSE [success |-> FALSE, results |-> None]
    /\ UNCHANGED <<has_tts_pipeline, has_image_pipeline, o_pc, enable_tts,
                   enable_images, n_images, extraction, img_task, img_ret,
                   image_descriptions, tts_results, epub_success,
                   o_exit, o_result, exceptOrch>>

\* if 'images' in futures: image_result = futures['images'].result() ...
JoinImagesOnlyIfTTSSucceeded ==
    /\ o_pc = "join_images"
    /\ img_task \in {"none", "done"}
    /\ o_pc' = NextPc(o_pc)
    /\ image_descriptions' = IF /\ img_task = "done" /\ img_ret.success
                                /\ (tts_task = "done" => tts_ret.success)
                             THEN img_ret.descriptions
                             ELSE image_descriptions
    /\ UNCHANGED <<has_tts_pipeline, has_image_pipeline, enable_tts,
                   enable_images, n_images, extraction, img_task, img_ret,
                   tts_task, tts_ret, tts_results, epub_success, o_exit,
                   o_result, exceptOrch>>
JoinImages ==
    /\ o_pc = "join_images"
    /\ img_task \in {"none", "done"}
    /\ o_pc' = NextPc(o_pc)
    /\ image_descriptions' = IF img_task = "done" /\ img_ret.success
                             THEN img_ret.descriptions
                             ELSE image_descriptions
    /\ UNCHANGED <<has_tts_pipeline, has_image_pipeline, enable_tts,
                   enable_images, n_images, extraction, img_task, img_ret,
                   tts_task, tts_ret, tts_results, epub_success, o_exit,
                   o_result, exceptOrch>>

\* if 'tts' in futures: tts_result = futures['tts'].result() ...
JoinTTS ==
    /\ o_pc = "join_tts"
    /\ tts_task \in {"none", "done"}
    /\ o_pc' = NextPc(o_pc)
    /\ tts_results' = IF tts_task = "done" /\ tts_ret.success
                      THEN tts_ret.results
                      ELSE tts_results
    /\ UNCHANGED <<has_tts_pipeline, has_image_pipeline, enable_tts,
                   enable_images, n_images, extraction, img_task, img_ret,
                   tts_task, tts_ret, image_descriptions, epub_success,
                   o_exit, o_result, exceptOrch>>

\* An exception leaves _process_images_parallel (its own handler raised, or
\* the future was cancelled): the future holds the exception.
ImagesTaskEscapes ==
    /\ img_task = "running"
    /\ img_task' = "raised"
    /\ UNCHANGED <<has_tts_pipeline, has_image_pipeline, o_pc, enable_tts,
                   enable_images, n_images, extraction, img_ret, tts_task,
                   tts_ret, image_descriptions, tts_results, epub_success,
                   o_exit, o_result, exceptOrch>>

\* The same for _generate_tts_audio_parallel.
TTSTaskEscapes ==
    /\ tts_task = "running"
    /\ tts_task' = "raised"
    /\ UNCHANGED <<has_tts_pipeline, has_image_pipeline, o_pc, enable_tts,
                   enable_images, n_images, extraction, img_task, img_ret,
                   tts_ret, image_descriptions, tts_results, epub_success,
                   o_exit, o_result, exceptOrch>>

\* futures['images'].result() raises: except Exception logs "Image
\* processing failed" and sets the stage time to 0; image_descriptions keeps
\* its initial [] and the function goes on.
JoinImagesRaised ==
    /\ o_pc = "join_images"
    /\ img_task = "raised"
    /\ o_pc' = NextPc(o_pc)
    /\ UNCHANGED <<has_tts_pipeline, has_image_pipeline, enable_tts,
                   enable_images, n_images, extraction, img_task, img_ret,
                   tts_task, tts_ret, image_descriptions, tts_results,
                   epub_success, o_exit, o_result, exceptOrch>>

\* futures['tts'].result() raises: except Exception logs "TTS generation
\* failed"; tts_results keeps its initial None and the function goes on.
JoinTTSRaised ==
    /\ o_pc = "join_tts"
    /\ tts_task = "raised"
    /\ o_pc' = NextPc(o_pc)
    /\ UNCHANGED <<has_tts_pipeline, has_image_pipeline, enable_tts,
                   enable_images, n_images, extraction, img_task, img_ret,
                   tts_task, tts_ret, image_descriptions, tts_results,
                   epub_success, o_exit, o_result, exceptOrch>>

\* The exception handler of process_epub_complete: a PipelineResult around
\* ProcessingResult(success=False, error_message=...).
ReturnErrorPropagates ==
    /\ o_pc' = "returned"
    /\ o_exit' = "raised"
    /\ o_result' = o_result
ReturnError ==
    /\ o_pc' = "returned"
    /\ o_exit' = "exception"
    /\ o_result' = PipelineResult(FALSE, None, None)

\* if image_descriptions: epub_result = self._integrate_image_descriptions(...)
Integrate(res) ==
    /\ o_pc = "integrate"
    /\ IF image_descriptions # <<>> /\ res = "raise"
       THEN ReturnError
       ELSE /\ o_pc' = NextPc(o_pc)
            /\ UNCHANGED <<o_exit, o_result>>
    /\ UNCHANGED <<has_tts_pipeline, has_image_pipeline, enable_tts,
                   enable_images, n_images, extraction, img_task, img_ret,
                   tts_task, tts_ret, image_descriptions, tts_results,
                   epub_success, exceptOrch>>

\* Stage 4: _generate_final_outputs, then the PipelineResult of the normal
\* return; an exception of the file writes goes to the handler.
FinalOutputs(res) ==
    /\ o_pc = "final"
    /\ IF res = "raise"
       THEN ReturnError
       ELSE /\ o_pc' = NextPc(o_pc)
            /\ o_exit' = "normal"
            /\ o_result' = PipelineResult(epub_success, tts_results,
                                          image_descriptions)
    /\ UNCHANGED <<has_tts_pipeline, has_image_pipeline, enable_tts,
                   enable_images, n_images, extraction, img_task, img_ret,
                   tts_task, tts_ret, image_descriptions, tts_results,
                   epub_success, exceptOrch>>

\* ------------------------------------------------------------------------
\* PipelineOrchestrator._integrate_image_descriptions (orchestrator.py)
\* ------------------------------------------------------------------------

\* An image path is the sequence of its components; the images of a book
\* are extracted to temp_media_dir / item.file_name, directories included
ImagePaths ==
    {<<"media", "ch1", "fig1.png">>, <<"media", "ch1", "fig2.png">>,
     <<"media", "ch2", "fig1.png">>}

\* Path(desc.image_path).name: the last component
PathName(path) == path[Len(path)]

ImageNames == {PathName(path) : path \in ImagePaths}

\* desc.description: what the model wrote
DescriptionTexts == {"a cat", "a chart"}

\* The ImageDescription fields the integration reads
ImageDescriptions ==
    [image_path : ImagePaths, description : DescriptionTexts,
     confidence : ConfLevels]

\* Lists of at most n descriptions, one for an image at most
RECURSIVE DescriptionListsUpTo(_)
DescriptionListsUpTo(n) ==
    IF n = 0 THEN {<<>>}
    ELSE LET shorter == DescriptionListsUpTo(n - 1)
             longer == {Append(l, d) : l \in shorter, d \in ImageDescriptions}
         IN  shorter \cup
             {l \in longer : \A i, j \in 1..Len(l) :
                                i < j => l[i].image_path # l[j].image_path}

\* The text is a sequence of tokens: a word, a placeholder in one of the four
\* forms "[IMAGE: Image of <name>]", "[IMAGE: <name>]", "![<name>]" and
\* "![Image of <name>]", or "[IMAGE DESCRIPTION: <description>]". arg is the
\* name of the image of a placeholder and the text of a description.
TextPatterns == {"image_of", "image", "md", "md_of"}
ChapterPatterns == {"image_of", "image"}
Tokens ==
    {[kind |-> "word", arg |-> "w"]}
    \cup [kind : TextPatterns, arg : ImageNames]

RECURSIVE TokenListsUpTo(_)
TokenListsUpTo(n) ==
    IF n = 0 THEN {<<>>}
    ELSE LET shorter == TokenListsUpTo(n - 1)
         IN  shorter \cup {Append(l, t) : l \in shorter, t \in Tokens}

\* if desc.confidence > 0.5
UsesDescription(confidence) == confidence > confidence_threshold

\* desc_map = {Path(desc.image_path).name: desc.description for desc in
\* image_descriptions if desc.confidence > 0.5}, over the first k
\* descriptions: a later description replaces an earlier one with its key
RECURSIVE DescMap(_, _)
DescMap(descs, k) ==
    IF k = 0 THEN [name \in {} |-> ""]
    ELSE LET before == DescMap(descs, k - 1)
             desc == descs[k]
             key == PathName(desc.image_path)
         IN  IF UsesDescription(desc.confidence)
             THEN [name \in DOMAIN before \cup {key} |->
                      IF name = key THEN desc.description ELSE before[name]]
             ELSE before

\* updated.replace(pattern, f"[IMAGE DESCRIPTION: {description}]") for
\* every entry of desc_map and every pattern of the list
ReplacePlaceholders(tokens, map, patterns) ==
    [k \in 1..Len(tokens) |->
        IF tokens[k].kind \in patterns /\ tokens[k].arg \in DOMAIN map
        THEN [kind |-> "description", arg |-> map[tokens[k].arg]]
        ELSE tokens[k]]

\* _integrate_image_descriptions(epub_result, image_descriptions)
IntegrateImageDescriptions ==
    /\ int_pc = "called"
    /\ LET desc_map == DescMap(int_descs, Len(int_descs))
       IN  /\ int_updated_text' =
                 ReplacePlaceholders(int_text, desc_map, TextPatterns)
           /\ int_updated_chapter' =
                 ReplacePlaceholders(int_chapter, desc_map, ChapterPatterns)
    /\ int_pc' = "returned"
    /\ UNCHANGED <<int_text, int_chapter, int_descs, exceptIntegrate>>

\* ------------------------------------------------------------------------
\* ProgressTracker (progress_tracker.py)
\* ------------------------------------------------------------------------

\* Threads that start() can create, in the order of their creation
Threads == 1..MaxThreads

\* Callbacks that get subscribed, and the threads that emit events
Subscribers == {"ui", "logger"}
Producers == {"tts_worker", "image_worker"}

\* No holder of self._lock; no thread in self._event_processor_thread
Free == 0
NoThread == 0

\* PipelineStats() as __init__ creates it for every pipeline type (the time
\* stamps and custom_stats are left out)
PipelineStats ==
    [total_items |-> 0, completed_items |-> 0, current_item |-> "",
     errors |-> 0, warnings |-> 0]

\* 'key' in event.data
HasKeyButCurrentItem(data, key) == key # "current_item" /\ key \in DOMAIN data
HasKey(data, key) == key \in DOMAIN data

\* stats.completed_items += 1
CompletedAfterCompleteSetToOne(completed) == 1
CompletedAfterComplete(completed) == completed + 1

\* The if/elif chain of _update_stats on the stats of the event's pipeline
UpdatePipelineStats(st, e) ==
    CASE e.event_type = "start" ->
           [st EXCEPT
              !.total_items = IF HasKey(e.data, "total_items")
                              THEN e.data.total_items ELSE @,
              !.current_item = IF HasKey(e.data, "current_item")
                               THEN e.data.current_item ELSE @]
      [] e.event_type = "progress" ->
           [st EXCEPT
              !.completed_items = IF HasKey(e.data, "completed_items")
                                  THEN e.data.completed_items ELSE @,
              !.current_item = IF HasKey(e.data, "current_item")
                               THEN e.data.current_item ELSE @,
              !.total_items = IF HasKey(e.data, "total_items")
                              THEN e.data.total_items ELSE @]
      [] e.event_type = "complete" ->
           [st EXCEPT
              !.current_item = IF HasKey(e.data, "current_item")
                               THEN "" ELSE @,
              !.completed_items = CompletedAfterComplete(@)]
      [] e.event_type = "error" -> [st EXCEPT !.errors = @ + 1]
      [] e.event_type = "warning" -> [st EXCEPT !.warnings = @ + 1]
      [] OTHER -> st

\* _update_stats: stats = self._stats[event.pipeline]
UpdateStatsOfAllPipelines(sts, e) ==
    [pl \in PipelineType |-> UpdatePipelineStats(sts[pl], e)]
UpdateStats(sts, e) ==
    [sts EXCEPT ![e.pipeline] = UpdatePipelineStats(@, e)]

\* PipelineStats.progress_percentage, rounded down to a whole percent
progress_percentage(st) ==
    IF st.total_items = 0 THEN 0
    ELSE LET pct == (st.completed_items * 100) \div st.total_items
         IN  IF pct > 100 THEN 100 ELSE pct

\* _store_recent_event: append, then drop the oldest above the maximum
StoreRecentEventInAllBuffers(recent, e) ==
    [pl \in PipelineType |->
        LET appended == Append(recent[pl], e)
        IN  IF Len(appended) > max_recent_events
            THEN Tail(appended) ELSE appended]
StoreRecentEventUnbounded(recent, e) ==
    [recent EXCEPT ![e.pipeline] = Append(@, e)]
StoreRecentEvent(recent, e) ==
    LET appended == Append(recent[e.pipeline], e)
    IN  [recent EXCEPT ![e.pipeline] =
            IF Len(appended) > max_recent_events
            THEN Tail(appended) ELSE appended]

\* What a thread of _process_events has in `event` before its first get
NoEvent ==
    [pipeline |-> "none", event_type |-> "none", data |-> [none |-> "none"],
     producer |-> "none", seq |-> 0]

\* The sentinel stop() emits
ShutdownEvent ==
    ProgressEvent("overall", "info", [action |-> "shutdown"], "stop", 0)

\* The shutdown test of _process_events
IsShutdown(e) ==
    /\ e.pipeline = "overall"
    /\ e.event_type = "info"
    /\ HasKey(e.data, "action")
    /\ e.data.action = "shutdown"

\* Threads running _process_events; threads inside a subscriber callback
Alive == {t \in Threads : c_pc[t] \notin {"unborn", "dead"}}
InCallback == {t \in Threads : c_pc[t] = "callback"}

\* Events emitted by the producers so far
Emitted == p_seq["tts_worker"] + p_seq["image_worker"]

\* if self._running: return
StartCreatesThreadAlways(isRunning) == TRUE
StartCreatesThread(isRunning) == ~isRunning

\* start(). start() and stop() are called by the owner of the tracker, one
\* call after the other.
Start ==
    /\ stop_pc = "idle"
    /\ lock = Free
    /\ IF StartCreatesThread(running)
       THEN \E t \in Threads :
               /\ c_pc[t] = "unborn"
               /\ \A u \in Threads : c_pc[u] = "unborn" => t <= u
               /\ running' = TRUE
               /\ event_processor_thread' = t
               /\ c_pc' = [c_pc EXCEPT ![t] = "loop"]
               /\ last_call' = "start"
       ELSE /\ last_call' = "start_noop"
            /\ UNCHANGED <<running, event_processor_thread, c_pc>>
    /\ UNCHANGED <<events, stats, recent_events, subscribers, lock, c_event,
                   c_subs, c_idx, stop_pc, raising, p_seq, delivered,
                   applied, join_timed_out, exceptBus>>

\* stop(), the block under the lock: return if not running, else clear
\* _running.
Stop ==
    /\ stop_pc = "idle"
    /\ lock = Free
    /\ IF ~running
       THEN /\ last_call' = "stop_noop"
            /\ UNCHANGED <<running, stop_pc>>
       ELSE /\ running' = FALSE
            /\ stop_pc' = "sentinel"
            /\ last_call' = "stop"
    /\ UNCHANGED <<events, stats, recent_events, subscribers, lock,
                   event_processor_thread, c_pc, c_event, c_subs, c_idx,
                   raising, p_seq, delivered, applied, join_timed_out,
                   exceptBus>>

\* stop(): "Add a sentinel event to wake up the processor"
StopEmitSentinel ==
    /\ stop_pc = "sentinel"
    /\ ~PutBlocks(events)
    /\ events' = Put(events, ShutdownEvent)
    /\ stop_pc' = "join"
    /\ UNCHANGED <<running, stats, recent_events, subscribers, lock,
                   event_processor_thread, c_pc, c_event, c_subs, c_idx,
                   last_call, raising, p_seq, delivered, applied,
                   join_timed_out, exceptBus>>

\* stop(): the processor thread has ended (or ends during the join);
\* join returns and so does stop().
StopJoinReturn ==
    /\ stop_pc = "join"
    /\ event_processor_thread # NoThread =>
          c_pc[event_processor_thread] = "dead"
    /\ stop_pc' = "idle"
    /\ UNCHANGED <<events, running, stats, recent_events, subscribers, lock,
                   event_processor_thread, c_pc, c_event, c_subs, c_idx,
                   last_call, raising, p_seq, delivered, applied,
                   join_timed_out, exceptBus>>

\* stop(): join(timeout=1.0) gives up while the processor thread is still
\* alive. A subscriber callback is the only step of the thread that can take
\* longer than the timeout.
StopJoinWithoutTimeout == FALSE
StopJoinTimeout ==
    /\ stop_pc = "join"
    /\ event_processor_thread # NoThread
    /\ c_pc[event_processor_thread] = "callback"
    /\ stop_pc' = "idle"
    /\ join_timed_out' = TRUE
    /\ UNCHANGED <<events, running, stats, recent_events, subscribers, lock,
                   event_processor_thread, c_pc, c_event, c_subs, c_idx,
                   last_call, raising, p_seq, delivered, applied, exceptBus>>

\* emit_event(event) by producer p: self._events.put(event). cap bounds the
\* number of events of a behaviour.
EmitEvent(p, e, cap) ==
    /\ Emitted < cap
    /\ e.producer = p
    /\ e.seq = p_seq[p] + 1
    /\ ~PutBlocks(events)
    /\ events' = Put(events, e)
    /\ p_seq' = [p_seq EXCEPT ![p] = @ + 1]
    /\ UNCHANGED <<running, stats, recent_events, subscribers, lock,
                   event_processor_thread, c_pc, c_event, c_subs, c_idx,
                   stop_pc, last_call, raising, delivered, applied,
                   join_timed_out, exceptBus>>

\* subscribe(callback)
Subscribe(cb) ==
    /\ lock = Free
    /\ subscribers' = IF \E k \in 1..Len(subscribers) : subscribers[k] = cb
                      THEN subscribers ELSE Append(subscribers, cb)
    /\ UNCHANGED <<events, running, stats, recent_events, lock,
                   event_processor_thread, c_pc, c_event, c_subs, c_idx,
                   stop_pc, last_call, raising, p_seq, delivered, applied,
                   join_timed_out, exceptBus>>

\* unsubscribe(callback)
Unsubscribe(cb) ==
    /\ lock = Free
    /\ subscribers' = SelectSeq(subscribers, LAMBDA x : x # cb)
    /\ UNCHANGED <<events, running, stats, recent_events, lock,
                   event_processor_thread, c_pc, c_event, c_subs, c_idx,
                   stop_pc, last_call, raising, p_seq, delivered, applied,
                   join_timed_out, exceptBus>>

\* _process_events in thread t: while self._running
ConsumerLoop(t) ==
    /\ c_pc[t] = "loop"
    /\ c_pc' = [c_pc EXCEPT ![t] = IF running THEN "get" ELSE "dead"]
    /\ UNCHANGED <<events, running, stats, recent_events, subscribers, lock,
                   event_processor_thread, c_event, c_subs, c_idx, stop_pc,
                   last_call, raising, p_seq, delivered, applied,
                   join_timed_out, exceptBus>>

\* event = self._events.get(timeout=0.1): Empty goes back to the loop test,
\* the shutdown event breaks out of the loop.
ConsumerGet(t) ==
    /\ c_pc[t] = "get"
    /\ IF events = <<>>
       THEN /\ c_pc' = [c_pc EXCEPT ![t] = "loop"]
            /\ UNCHANGED <<events, c_event>>
       ELSE /\ events' = Tail(events)
            /\ IF IsShutdown(Head(events))
               THEN /\ c_pc' = [c_pc EXCEPT ![t] = "dead"]
                    /\ UNCHANGED c_event
               ELSE /\ c_pc' = [c_pc EXCEPT ![t] = "update"]
                    /\ c_event' = [c_event EXCEPT ![t] = Head(events)]
    /\ UNCHANGED <<running, stats, recent_events, subscribers, lock,
                   event_processor_thread, c_subs, c_idx, stop_pc, last_call,
                   raising, p_seq, delivered, applied, join_timed_out,
                   exceptBus>>

\* self._update_stats(event)
ConsumerUpdateStats(t) ==
    /\ c_pc[t] = "update"
    /\ lock = Free
    /\ stats' = UpdateStats(stats, c_event[t])
    /\ applied' = Append(applied, c_event[t])
    /\ c_pc' = [c_pc EXCEPT ![t] = "store"]
    /\ UNCHANGED <<events, running, recent_events, subscribers, lock,
                   event_processor_thread, c_event, c_subs, c_idx, stop_pc,
                   last_call, raising, p_seq, delivered, join_timed_out,
                   exceptBus>>

\* self._store_recent_event(event)
ConsumerStoreRecent(t) ==
    /\ c_pc[t] = "store"
    /\ lock = Free
    /\ recent_events' = StoreRecentEvent(recent_events, c_event[t])
    /\ c_pc' = [c_pc EXCEPT ![t] = "copy"]
    /\ UNCHANGED <<events, running, stats, subscribers, lock,
                   event_processor_thread, c_event, c_subs, c_idx, stop_pc,
                   last_call, raising, p_seq, delivered, applied,
                   join_timed_out, exceptBus>>

\* Holder of the lock when the with block of _notify_subscribers is left
LockAfterCopyKept(t) == t
LockAfterCopy(t) == Free

\* _notify_subscribers: subscribers = self._subscribers.copy() under the
\* lock; the for loop over the copy follows.
ConsumerCopySubscribers(t) ==
    /\ c_pc[t] = "copy"
    /\ lock = Free
    /\ c_subs' = [c_subs EXCEPT ![t] = subscribers]
    /\ c_idx' = [c_idx EXCEPT ![t] = 1]
    /\ lock' = LockAfterCopy(t)
    /\ c_pc' = [c_pc EXCEPT ![t] = IF subscribers = <<>>
                                   THEN "loop" ELSE "notify"]
    /\ UNCHANGED <<events, running, stats, recent_events, subscribers,
                   event_processor_thread, c_event, stop_pc, last_call,
                   raising, p_seq, delivered, applied, join_timed_out,
                   exceptBus>>

\* callback(event) is entered for the next subscriber of the copy
CallbackBegin(t) ==
    /\ c_pc[t] = "notify"
    /\ c_pc' = [c_pc EXCEPT ![t] = "callback"]
    /\ delivered' = [delivered EXCEPT ![c_subs[t][c_idx[t]]] =
                        Append(@, c_event[t])]
    /\ UNCHANGED <<events, running, stats, recent_events, subscribers, lock,
                   event_processor_thread, c_event, c_subs, c_idx, stop_pc,
                   last_call, raising, p_seq, applied, join_timed_out,
                   exceptBus>>

\* Position in the copy after callback number idx returned or raised:
\* except Exception prints and the for loop goes on.
IdxAfterCallbackAbortOnRaise(idx, len, raised) ==
    IF raised THEN len + 1 ELSE idx + 1
IdxAfterCallback(idx, len, raised) == idx + 1

\* callback(event) returns or raises
CallbackEnd(t) ==
    /\ c_pc[t] = "callback"
    /\ LET idx == IdxAfterCallback(c_idx[t], Len(c_subs[t]),
                                   c_subs[t][c_idx[t]] \in raising)
       IN  /\ c_idx' = [c_idx EXCEPT ![t] = idx]
           /\ c_pc' = [c_pc EXCEPT ![t] = IF idx > Len(c_subs[t])
                                          THEN "loop" ELSE "notify"]
    /\ UNCHANGED <<events, running, stats, recent_events, subscribers, lock,
                   event_processor_thread, c_event, c_subs, stop_pc,
                   last_call, raising, p_seq, delivered, applied,
                   join_timed_out, exceptBus>>

\* for pipeline_type in [PipelineType.TTS, PipelineType.IMAGE,
\* PipelineType.EPUB]
OverallPipelinesWithOverall == <<"tts", "image", "epub", "overall">>
OverallPipelines == <<"tts", "image", "epub">>

\* total += stats.<field> over the first k pipelines of that list
RECURSIVE SumOfField(_, _, _)
SumOfField(sts, field, k) ==
    IF k = 0 THEN 0
    ELSE SumOfField(sts, field, k - 1) + sts[OverallPipelines[k]][field]

\* The dictionary get_overall_stats returns (the times, the percentage, the
\* ETA and the active pipelines are left out)
get_overall_stats(sts) ==
    [total_items |-> SumOfField(sts, "total_items", Len(OverallPipelines)),
     completed_items |->
         SumOfField(sts, "completed_items", Len(OverallPipelines)),
     errors |-> SumOfField(sts, "errors", Len(OverallPipelines)),
     warnings |-> SumOfField(sts, "warnings", Len(OverallPipelines))]

\* get_overall_stats(): the whole body runs under the lock
GetOverallStats ==
    /\ Len(overall_returned) < MaxGetterCalls
    /\ lock = Free
    /\ overall_returned' =
          Append(overall_returned,
                 [read |-> stats, returned |-> get_overall_stats(stats)])
    /\ UNCHANGED exceptGetters

\* list(reversed(seq))
RECURSIVE Reversed(_)
Reversed(seq) ==
    IF seq = <<>> THEN <<>>
    ELSE Append(Reversed(Tail(seq)), Head(seq))

\* seq[start:] of a list: a negative start counts from the end and stops at
\* the front of the list; a start of 0 (also written -0) is the front
SliceFrom(seq, start) ==
    LET len  == Len(seq)
        from == IF start < 0
                THEN (IF len + start < 0 THEN 0 ELSE len + start)
                ELSE (IF start > len THEN len ELSE start)
    IN  SubSeq(seq, from + 1, len)

\* get_recent_events: list(reversed(events[-limit:]))
get_recent_events(recent, pipeline, limit) ==
    Reversed(SliceFrom(recent[pipeline], 0 - limit))

\* get_recent_events(pipeline, limit): the whole body runs under the lock
GetRecentEvents(pipeline, limit) ==
    /\ Len(recent_returned) < MaxGetterCalls
    /\ lock = Free
    /\ recent_returned' =
          Append(recent_returned,
                 [pipeline |-> pipeline, limit |-> limit,
                  read |-> recent_events[pipeline],
                  returned |-> get_recent_events(recent_events, pipeline,
                                                 limit)])
    /\ UNCHANGED exceptRecentGetter

\* Pipeline a producer reports on
PipelineOf(p) == IF p = "tts_worker" THEN "tts" ELSE "image"

\* Events number k of producer p in the specification of the bus
BusEvents(p, k) == {create_complete_event(PipelineOf(p), "item", p, k)}

\* Events number k of producer p in the specification of the sentinel: a
\* completion event, and an event a producer builds with the pipeline, the
\* type and the payload of the one stop() emits
SentinelEvents(p, k) ==
    BusEvents(p, k)
    \cup {ProgressEvent("overall", "info", [action |-> "shutdown"], p, k)}

\* Events number k of producer p in the specification of the statistics
StatEvents(p, k) ==
    {create_start_event(PipelineOf(p), n, "item", p, k) : n \in 1..MaxTotal}
    \cup {create_progress_event(PipelineOf(p), c, "item", << >>, p, k) :
             c \in 0..MaxTotal}
    \cup {create_complete_event(PipelineOf(p), "item", p, k),
          ProgressEvent(PipelineOf(p), "complete", << >>, p, k)}

\* Events number k of producer p in the specification of the counters:
\* Start events with both keys, with current_item only and with an empty
\* payload, and Complete, Error and Warning events
CounterEvents(p, k) ==
    {create_start_event(PipelineOf(p), MaxTotal, "item", p, k),
     ProgressEvent(PipelineOf(p), "start", [current_item |-> "next"], p, k),
     ProgressEvent(PipelineOf(p), "start", << >>, p, k),
     create_complete_event(PipelineOf(p), "item", p, k),
     create_error_event(PipelineOf(p), "failed", "item", p, k),
     ProgressEvent(PipelineOf(p), "warning", [message |-> "slow"], p, k)}

\* Events number k of producer p in the specification of the overall
\* statistics: Progress (with completed_items and total_items), Error and
\* Warning events for each of the four pipeline types
OverallEvents(p, k) ==
    UNION {{create_progress_event(pl, 1, "item", [total_items |-> MaxTotal],
                                  p, k),
            create_error_event(pl, "failed", "item", p, k),
            ProgressEvent(pl, "warning", [message |-> "slow"], p, k)} :
           pl \in PipelineType}

\* ------------------------------------------------------------------------
\* Initial state: after construction of the objects
\* ------------------------------------------------------------------------
Init ==
    /\ degradation_level = 0
    /\ metal_error_count = 0
    /\ use_mlx_audio \in BOOLEAN
    \* True for MLXKokoroModel; False is what getattr(self.model,
    \* 'force_sequential', False) reads from a model without the attribute
    /\ force_sequential \in BOOLEAN
    /\ spc = "idle"
    /\ attempt = 0
    /\ attempts_made = 0
    /\ nonmetal_failures = 0
    /\ handled_in_call = 0
    /\ last_path = "none"
    /\ iter_steps = <<>>
    /\ last_failure = "none"
    /\ outcome = "none"
    /\ error_kind = "none"
    /\ calls = 0
    /\ api_pc = "idle"
    /\ api_attempt = 0
    /\ api_attempts_made = 0
    /\ api_outcome = "none"
    /\ api_calls = 0
    /\ api_last_failure = "none"
    /\ hs_pc = "idle"
    /\ hs_attempt = 0
    /\ hs_attempts_made = 0
    /\ hs_outcome = "none"
    /\ hs_calls = 0
    /\ hs_last_failure = "none"
    \* KokoroTTSPipeline.__init__ raises unless _initialize_model succeeded
    /\ is_initialized = TRUE
    /\ tb_pc = "idle"
    /\ tb_n = 0
    /\ tb_i = 1
    /\ tb_chunk = [i \in Items |-> "none"]
    /\ tb_result = [i \in Items |-> None]
    /\ tb_results = <<>>
    /\ tb_collected = {}
    /\ tb_failed = {}
    /\ tb_parallel = FALSE
    \* ImageConfig.enabled
    /\ image_enabled \in BOOLEAN
    /\ ib_pc = "idle"
    /\ ib_n = 0
    /\ ib_i = 1
    /\ ib_image = [i \in Items |-> "none"]
    /\ ib_result = [i \in Items |-> None]
    /\ ib_descriptions = <<>>
    /\ ib_collected = {}
    /\ ib_failed = {}
    \* PipelineOrchestrator.__init__: a pipeline is None when its creation
    \* failed or (images) when image description is disabled
    /\ has_tts_pipeline \in BOOLEAN
    /\ has_image_pipeline \in BOOLEAN
    /\ has_image_pipeline => image_enabled
    /\ o_pc = "idle"
    /\ enable_tts = FALSE
    /\ enable_images = TRUE
    /\ n_images = 0
    /\ extraction = "none"
    /\ img_task = "none"
    /\ img_ret = None
    /\ tts_task = "none"
    /\ tts_ret = None
    /\ image_descriptions = <<>>
    /\ tts_results = None
    /\ epub_success = FALSE
    /\ o_exit = "none"
    /\ o_result = None
    \* progress_tracker argument of the pipelines' constructors
    /\ progress_tracker \in BOOLEAN
    \* ProgressTracker.__init__
    /\ running = FALSE
    /\ events = <<>>
    /\ stats = [pl \in PipelineType |-> PipelineStats]
    /\ recent_events = [pl \in PipelineType |-> <<>>]
    /\ subscribers = <<>>
    /\ lock = Free
    /\ event_processor_thread = NoThread
    /\ c_pc = [t \in Threads |-> "unborn"]
    /\ c_event = [t \in Threads |-> NoEvent]
    /\ c_subs = [t \in Threads |-> <<>>]
    /\ c_idx = [t \in Threads |-> 0]
    /\ stop_pc = "idle"
    /\ last_call = "none"
    /\ raising \in SUBSET Subscribers
    /\ p_seq = [p \in Producers |-> 0]
    /\ delivered = [cb \in Subscribers |-> <<>>]
    /\ applied = <<>>
    /\ join_timed_out = FALSE
    /\ overall_returned = <<>>
    /\ recent_returned = <<>>
    /\ int_pc = "idle"
    /\ int_text = <<>>
    /\ int_chapter = <<>>
    /\ int_descs = <<>>
    /\ int_updated_text = <<>>
    /\ int_updated_chapter = <<>>

NextBackend ==
    \/ SynthesizeCall
    \/ \E res \in BackendResults : SynthesizeAttempt(res)
    \/ ApiCall
    \/ \E res \in ApiResults : ApiAttempt(res)

\* The configuration the other subsystems read is fixed in each
\* specification; its own is left open.
InitBackend ==
    Init /\ force_sequential /\ image_enabled /\ has_tts_pipeline
         /\ has_image_pipeline /\ ~progress_tracker /\ raising = {}

SpecBackend == InitBackend /\ [][NextBackend]_vars

\* All retry loops: synthesize, the two non-streaming API loops and the
\* streaming loop of the Hume pipeline
NextRetry ==
    \/ SynthesizeCall
    \/ \E res \in BackendResults : SynthesizeAttempt(res)
    \/ ApiCall
    \/ \E res \in ApiResults : ApiAttempt(res)
    \/ HumeStreamingCall
    \/ \E res \in ApiResults : HumeStreamingAttempt(res)

SpecRetry == InitBackend /\ [][NextRetry]_vars

NextBatch ==
    \/ \E n \in 0..MaxItems, parallel \in BOOLEAN : BatchProcess(n, parallel)
    \/ \E i \in Items : ProcessChunkBegin(i)
    \/ \E i \in Items, out \in ChunkOutcomes : ProcessChunkEnd(i, out)
    \/ SeqCollect
    \/ \E i \in Items : ParCollect(i)
    \/ BatchProcessReturn
    \/ \E n \in 0..MaxItems, parallel \in BOOLEAN :
          BatchProcessImages(n, parallel)
    \/ \E i \in Items : ProcessImageBegin(i)
    \/ \E i \in Items, out \in ImageOutcomes : ProcessImageEnd(i, out)
    \/ SeqCollectImage
    \/ \E i \in Items : ParCollectImage(i)
    \/ BatchProcessImagesReturn

InitBatchAny ==
    Init /\ ~use_mlx_audio /\ has_tts_pipeline
         /\ has_image_pipeline = image_enabled /\ raising = {}

\* The batch runners without a tracker
InitBatch == InitBatchAny /\ ~progress_tracker

SpecBatch == InitBatch /\ [][NextBatch]_vars

NextOrch ==
    \/ \E tts \in BOOLEAN, images \in BOOLEAN : ProcessEpubComplete(tts, images)
    \/ \E res \in ExtractionResults, nimg \in 0..MaxImages :
          Extraction(res, nimg)
    \/ SubmitImages
    \/ SubmitTTS
    \/ ImagesTaskStart
    \/ \E out \in ImagesTaskOutcomes, m \in 1..MaxImages :
          \E descs \in DescriptionLists(m) : ImagesTaskFinish(out, descs)
    \/ TTSTaskStart
    \/ \E out \in TTSTaskOutcomes, k \in 0..MaxChapters : TTSTaskFinish(out, k)
    \/ JoinImages
    \/ JoinTTS
    \/ \E res \in {"ok", "raise"} : Integrate(res)
    \/ \E res \in {"ok", "raise"} : FinalOutputs(res)

InitOrch ==
    Init /\ ~use_mlx_audio /\ force_sequential /\ image_enabled
         /\ ~progress_tracker /\ raising = {}

SpecOrch == InitOrch /\ [][NextOrch]_vars

\* The orchestrator with futures whose result() raises
NextOrchErrors ==
    \/ NextOrch
    \/ ImagesTaskEscapes
    \/ TTSTaskEscapes
    \/ JoinImagesRaised
    \/ JoinTTSRaised

SpecOrchErrors == InitOrch /\ [][NextOrchErrors]_vars

\* The tracker with its owner, producers and subscribers
NextBus ==
    \/ Start
    \/ Stop
    \/ StopEmitSentinel
    \/ StopJoinReturn
    \/ StopJoinTimeout
    \/ \E p \in Producers : \E e \in BusEvents(p, p_seq[p] + 1) :
          EmitEvent(p, e, MaxEmits)
    \/ \E cb \in Subscribers : Subscribe(cb)
    \/ \E cb \in Subscribers : Unsubscribe(cb)
    \/ \E t \in Threads : ConsumerLoop(t)
    \/ \E t \in Threads : ConsumerGet(t)
    \/ \E t \in Threads : ConsumerUpdateStats(t)
    \/ \E t \in Threads : ConsumerStoreRecent(t)
    \/ \E t \in Threads : ConsumerCopySubscribers(t)
    \/ \E t \in Threads : CallbackBegin(t)
    \/ \E t \in Threads : CallbackEnd(t)

InitTracker ==
    Init /\ ~use_mlx_audio /\ force_sequential /\ image_enabled
         /\ has_tts_pipeline /\ has_image_pipeline /\ progress_tracker

\* The callback of "ui" raises on every event, the one of "logger" never
InitBus == InitTracker /\ raising = {"ui"}

SpecBus == InitBus /\ [][NextBus]_vars

\* The statistics: a started tracker without subscribers, and producers
\* that emit start, progress and complete events
NextStats ==
    \/ Start
    \/ \E p \in Producers : \E e \in StatEvents(p, p_seq[p] + 1) :
          EmitEvent(p, e, MaxStatEvents)
    \/ \E t \in Threads : ConsumerLoop(t)
    \/ \E t \in Threads : ConsumerGet(t)
    \/ \E t \in Threads : ConsumerUpdateStats(t)
    \/ \E t \in Threads : ConsumerStoreRecent(t)
    \/ \E t \in Threads : ConsumerCopySubscribers(t)

InitStats == InitTracker /\ raising = {}

SpecStats == InitStats /\ [][NextStats]_vars

\* The life cycle of the tracker: its owner starts and stops it, producers
\* emit, one callback is subscribed
NextLifecycle ==
    \/ Start
    \/ Stop
    \/ StopEmitSentinel
    \/ StopJoinReturn
    \/ StopJoinTimeout
    \/ \E p \in Producers : \E e \in BusEvents(p, p_seq[p] + 1) :
          EmitEvent(p, e, MaxEmits)
    \/ \E cb \in {"logger"} : Subscribe(cb)
    \/ \E t \in Threads : ConsumerLoop(t)
    \/ \E t \in Threads : ConsumerGet(t)
    \/ \E t \in Threads : ConsumerUpdateStats(t)
    \/ \E t \in Threads : ConsumerStoreRecent(t)
    \/ \E t \in Threads : ConsumerCopySubscribers(t)
    \/ \E t \in Threads : CallbackBegin(t)
    \/ \E t \in Threads : CallbackEnd(t)

\* The consumer threads and the thread inside stop() are scheduled: each
\* goes on with its next statement. How long a subscriber's callback takes
\* is up to the subscriber, so nothing is assumed about its return. Every
\* one of these steps changes the position of its thread.
LifecycleFairness ==
    /\ \A t \in Threads :
          /\ WF_c_pc(ConsumerLoop(t))
          /\ WF_c_pc(ConsumerGet(t))
          /\ WF_c_pc(ConsumerUpdateStats(t))
          /\ WF_c_pc(ConsumerStoreRecent(t))
          /\ WF_c_pc(ConsumerCopySubscribers(t))
          /\ WF_c_pc(CallbackBegin(t))
    /\ WF_stop_pc(StopEmitSentinel)
    /\ WF_stop_pc(StopJoinReturn)
    /\ WF_stop_pc(StopJoinTimeout)

SpecLifecycle == InitStats /\ [][NextLifecycle]_vars /\ LifecycleFairness

\* The same without fairness, and with producers that emit only while the
\* tracker is running
NextDrain ==
    \/ Start
    \/ Stop
    \/ StopEmitSentinel
    \/ StopJoinReturn
    \/ StopJoinTimeout
    \/ /\ running
       /\ \E p \in Producers : \E e \in BusEvents(p, p_seq[p] + 1) :
             EmitEvent(p, e, MaxEmits)
    \/ \E cb \in {"logger"} : Subscribe(cb)
    \/ \E t \in Threads : ConsumerLoop(t)
    \/ \E t \in Threads : ConsumerGet(t)
    \/ \E t \in Threads : ConsumerUpdateStats(t)
    \/ \E t \in Threads : ConsumerStoreRecent(t)
    \/ \E t \in Threads : ConsumerCopySubscribers(t)
    \/ \E t \in Threads : CallbackBegin(t)
    \/ \E t \in Threads : CallbackEnd(t)

SpecDrain == InitStats /\ [][NextDrain]_vars

\* A tracker that is started and never stopped, producers that can emit an
\* event of the sentinel's shape, and subscribers of which "ui" raises
NextSentinel ==
    \/ Start
    \/ \E p \in Producers : \E e \in SentinelEvents(p, p_seq[p] + 1) :
          EmitEvent(p, e, MaxEmits)
    \/ \E cb \in Subscribers : Subscribe(cb)
    \/ \E t \in Threads : ConsumerLoop(t)
    \/ \E t \in Threads : ConsumerGet(t)
    \/ \E t \in Threads : ConsumerUpdateStats(t)
    \/ \E t \in Threads : ConsumerStoreRecent(t)
    \/ \E t \in Threads : ConsumerCopySubscribers(t)
    \/ \E t \in Threads : CallbackBegin(t)
    \/ \E t \in Threads : CallbackEnd(t)

SpecSentinel == InitBus /\ [][NextSentinel]_vars

\* The recent events: a started tracker, a producer that emits more events
\* than a buffer keeps, one event of another pipeline, and a subscriber
NextRecent ==
    \/ Start
    \/ \E e \in BusEvents("tts_worker", p_seq["tts_worker"] + 1) :
          EmitEvent("tts_worker", e, MaxRecentEmits)
    \/ /\ p_seq["image_worker"] = 0
       /\ \E e \in BusEvents("image_worker", 1) :
             EmitEvent("image_worker", e, MaxRecentEmits)
    \/ /\ subscribers = <<>>
       /\ Subscribe("logger")
    \/ \E t \in Threads : ConsumerLoop(t)
    \/ \E t \in Threads : ConsumerGet(t)
    \/ \E t \in Threads : ConsumerUpdateStats(t)
    \/ \E t \in Threads : ConsumerStoreRecent(t)
    \/ \E t \in Threads : ConsumerCopySubscribers(t)
    \/ \E t \in Threads : CallbackBegin(t)
    \/ \E t \in Threads : CallbackEnd(t)

SpecRecent == InitStats /\ [][NextRecent]_vars

\* Events number k of producer p in the specification of the Complete
\* events: a Start event that names an item, the Complete event of
\* create_complete_event (its payload always has the key current_item), and
\* a Complete event built with ProgressEvent(...) whose payload lacks the key
CompleteEvents(p, k) ==
    {create_start_event(PipelineOf(p), MaxTotal, "item", p, k),
     create_complete_event(PipelineOf(p), "item", p, k),
     create_complete_event(PipelineOf(p), "", p, k),
     ProgressEvent(PipelineOf(p), "complete", << >>, p, k)}

NextComplete ==
    \/ Start
    \/ \E p \in Producers : \E e \in CompleteEvents(p, p_seq[p] + 1) :
          EmitEvent(p, e, MaxStatEvents)
    \/ \E t \in Threads : ConsumerLoop(t)
    \/ \E t \in Threads : ConsumerGet(t)
    \/ \E t \in Threads : ConsumerUpdateStats(t)
    \/ \E t \in Threads : ConsumerStoreRecent(t)
    \/ \E t \in Threads : ConsumerCopySubscribers(t)

SpecComplete == InitStats /\ [][NextComplete]_vars

\* The recent events read: a started tracker, producers, and a reader that
\* asks for the recent events of a pipeline with a limit from 0 upwards
NextGetRecent ==
    \/ Start
    \/ \E p \in Producers : \E e \in BusEvents(p, p_seq[p] + 1) :
          EmitEvent(p, e, MaxStatEvents)
    \/ \E t \in Threads : ConsumerLoop(t)
    \/ \E t \in Threads : ConsumerGet(t)
    \/ \E t \in Threads : ConsumerUpdateStats(t)
    \/ \E t \in Threads : ConsumerStoreRecent(t)
    \/ \E t \in Threads : ConsumerCopySubscribers(t)
    \/ \E pl \in PipelineType, limit \in 0..MaxLimit :
          GetRecentEvents(pl, limit)

SpecGetRecent == InitStats /\ [][NextGetRecent]_vars

\* The counters: a started tracker without subscribers, and producers that
\* emit start, complete, error and warning events
NextCounters ==
    \/ Start
    \/ \E p \in Producers : \E e \in CounterEvents(p, p_seq[p] + 1) :
          EmitEvent(p, e, MaxStatEvents)
    \/ \E t \in Threads : ConsumerLoop(t)
    \/ \E t \in Threads : ConsumerGet(t)
    \/ \E t \in Threads : ConsumerUpdateStats(t)
    \/ \E t \in Threads : ConsumerStoreRecent(t)
    \/ \E t \in Threads : ConsumerCopySubscribers(t)

SpecCounters == InitStats /\ [][NextCounters]_vars

\* The overall statistics: a started tracker without subscribers, producers
\* that emit events for all pipeline types, and a reader
NextOverall ==
    \/ Start
    \/ \E p \in Producers : \E e \in OverallEvents(p, p_seq[p] + 1) :
          EmitEvent(p, e, MaxEmits)
    \/ \E t \in Threads : ConsumerLoop(t)
    \/ \E t \in Threads : ConsumerGet(t)
    \/ \E t \in Threads : ConsumerUpdateStats(t)
    \/ \E t \in Threads : ConsumerStoreRecent(t)
    \/ \E t \in Threads : ConsumerCopySubscribers(t)
    \/ GetOverallStats

SpecOverall == InitStats /\ [][NextOverall]_vars

\* _integrate_image_descriptions is called with a text, a chapter and a
\* non-empty list of descriptions (process_epub_complete calls it only
\* if image_descriptions)
IntegrateCall(text, chapter, descs) ==
    /\ int_pc = "idle"
    /\ descs # <<>>
    /\ int_pc' = "called"
    /\ int_text' = text
    /\ int_chapter' = chapter
    /\ int_descs' = descs
    /\ UNCHANGED <<int_updated_text, int_updated_chapter, exceptIntegrate>>

NextIntegrate ==
    \/ /\ int_pc = "idle"
       /\ \E text \in TokenListsUpTo(MaxTokens) :
             \E chapter \in TokenListsUpTo(MaxChapterTokens) :
                \E descs \in DescriptionListsUpTo(MaxImages) :
                   IntegrateCall(text, chapter, descs)
    \/ IntegrateImageDescriptions

InitIntegrate == InitOrch /\ has_tts_pipeline /\ has_image_pipeline

SpecIntegrate == InitIntegrate /\ [][NextIntegrate]_vars

\* The batch runners with a tracker that is not started: the queue keeps
\* every event they emit
NextBatchEvents ==
    \/ \E n \in 0..MaxTracked, parallel \in BOOLEAN :
          BatchProcess(n, parallel)
    \/ \E i \in Items : ProcessChunkBegin(i)
    \/ \E i \in Items, out \in ChunkOutcomes : ProcessChunkEnd(i, out)
    \/ SeqCollect
    \/ \E i \in Items : ParCollect(i)
    \/ BatchProcessReturn
    \/ \E n \in 0..MaxTracked, parallel \in BOOLEAN :
          BatchProcessImages(n, parallel)
    \/ \E i \in Items : ProcessImageBegin(i)
    \/ \E i \in Items, out \in ImageOutcomes : ProcessImageEnd(i, out)
    \/ SeqCollectImage
    \/ \E i \in Items : ParCollectImage(i)
    \/ BatchProcessImagesReturn

InitBatchEvents == InitBatchAny /\ progress_tracker

SpecBatchEvents == InitBatchEvents /\ [][NextBatchEvents]_vars

\* The batch runners with a started tracker that processes their events
NextProgress ==
    \/ Start
    \/ \E n \in 0..MaxTracked, parallel \in BOOLEAN :
          BatchProcess(n, parallel)
    \/ \E i \in Items : ProcessChunkBegin(i)
    \/ \E i \in Items, out \in ChunkOutcomes : ProcessChunkEnd(i, out)
    \/ SeqCollect
    \/ \E i \in Items : ParCollect(i)
    \/ BatchProcessReturn
    \/ \E n \in 0..MaxTracked, parallel \in BOOLEAN :
          BatchProcessImages(n, parallel)
    \/ \E i \in Items : ProcessImageBegin(i)
    \/ \E i \in Items, out \in ImageOutcomes : ProcessImageEnd(i, out)
    \/ SeqCollectImage
    \/ \E i \in Items : ParCollectImage(i)
    \/ BatchProcessImagesReturn
    \/ \E t \in Threads : ConsumerLoop(t)
    \/ \E t \in Threads : ConsumerGet(t)
    \/ \E t \in Threads : ConsumerUpdateStats(t)
    \/ \E t \in Threads : ConsumerStoreRecent(t)
    \/ \E t \in Threads : ConsumerCopySubscribers(t)

InitProgress == InitBatchEvents

SpecProgress == InitProgress /\ [][NextProgress]_vars

\* ------------------------------------------------------------------------
\* Properties
\* ------------------------------------------------------------------------

\* The items of the finished batch, as a set of positions of the input list
TtsResultItems == {tb_results[k].item : k \in 1..Len(tb_results)}
ImageResultItems == {ib_descriptions[k].item : k \in 1..Len(ib_descriptions)}

C3_LevelNeverDecreases ==
    /\ degradation_level = 0
    /\ [][degradation_level' >= degradation_level]_vars

\* A later call ran on the degraded instance and returned audio.
C3_Witness ==
    /\ degradation_level = 1 /\ calls >= 2 /\ metal_error_count = 2
    /\ spc = "idle" /\ outcome = "audio"

\* C4: one synthesize call makes at most max_retries + 1 synthesis attempts,
\* whatever mix of Metal and other errors it meets; the retry loops of the
\* ElevenLabs and Hume pipelines stay within the same bound.
C4_BoundedAttempts ==
    /\ attempts_made <= max_retries + 1
    /\ api_attempts_made <= api_max_retries + 1

\* A call that met handled Metal errors and other errors and used all attempts.
C4_Witness ==
    /\ spc = "idle" /\ outcome = "error"
    /\ attempts_made = max_retries + 1
    /\ handled_in_call >= 1 /\ nonmetal_failures >= 1

\* C5 (as stated): with one recognized hardware fault counted the backend is
\* still at Primary; it is at SafeFallback once two are counted.
C5_ThresholdOfTwo ==
    /\ metal_error_count = 1 => degradation_level = 0
    /\ metal_error_count >= 2 => degradation_level = 1

\* C5 (amended): the backend is at Primary exactly while no recognized
\* hardware fault has been counted; the first counted fault moves it to
\* SafeFallback (and switches MLX-Audio off), where it stays for the second.
C5_DegradesOnFirstFault ==
    /\ metal_error_count = 0 => degradation_level = 0
    /\ metal_error_count >= 1 => degradation_level = 1 /\ ~use_mlx_audio

\* The first fault has been counted, inside a call that is still retrying.
C5_Witness ==
    /\ metal_error_count = 1 /\ degradation_level = 1
    /\ spc = "loop" /\ handled_in_call = 1

\* C6 (as stated): a handled hardware fault costs no attempt, so a call that
\* gives up without the Metal limit being hit has had max_retries + 1
\* attempts fail for other reasons.
C6_DegradationKeepsRetries ==
    spc = "idle" /\ outcome = "error" /\ error_kind # "too_many_metal"
        => nonmetal_failures = max_retries + 1

\* C6 (amended): a handled hardware fault uses up one attempt like any other
\* failure (only the backoff sleep is skipped): inside a call the loop index
\* is the number of failed attempts of either kind, and the attempt after the
\* fault is issued at the new level.
C6_DegradationUsesAttempt ==
    /\ spc = "loop" =>
          /\ attempt = nonmetal_failures + handled_in_call
          /\ attempts_made = attempt
    /\ spc = "idle" /\ outcome = "error" /\ error_kind # "too_many_metal"
          => nonmetal_failures + handled_in_call = max_retries + 1
    /\ handled_in_call >= 1 => degradation_level = 1

\* A call gave up after a handled fault and only max_retries other failures.
C6_Witness ==
    /\ spc = "idle" /\ outcome = "error" /\ error_kind = "exhausted"
    /\ handled_in_call = 1 /\ nonmetal_failures = max_retries

\* C7: once the instance has raised "Too many Metal framework errors, TTS
\* unavailable" it is at Unavailable (level 2) for good, and no later
\* synthesize call returns audio.
C7_UnavailableIsTerminal ==
    metal_error_count >= metal_error_limit
        => degradation_level = 2 /\ outcome # "audio"

\* C8: when extraction returns a failed result, process_epub_complete returns
\* without ever starting the description task or the synthesis task, and the
\* PipelineResult has no synthesis results, no descriptions and success false.
C8_ExtractionFailureAborts ==
    extraction = "failed" =>
        /\ img_task = "none" /\ tts_task = "none"
        /\ o_pc = "returned"
        /\ o_result = PipelineResult(FALSE, None, None)

\* Extraction failed in a run that asked for both sub-pipelines.
C8_Witness ==
    /\ extraction = "failed" /\ o_pc = "returned"
    /\ enable_tts /\ enable_images /\ has_tts_pipeline /\ has_image_pipeline

\* C9: after the join, each sub-pipeline that succeeded has its results in
\* the orchestrator's hands whatever the other one did, a failed one has left
\* the empty value, and the PipelineResult of the normal return carries both
\* with success true.
C9_SubPipelinesIsolated ==
    /\ o_pc \in {"integrate", "final"} \/ o_exit = "normal" =>
          /\ tts_task = "done" /\ tts_ret.success =>
                tts_results = tts_ret.results
          /\ tts_task = "done" /\ ~tts_ret.success => tts_results = None
          /\ img_task = "done" /\ img_ret.success =>
                image_descriptions = img_ret.descriptions
          /\ img_task = "done" /\ ~img_ret.success =>
                image_descriptions = <<>>
          /\ tts_task \in {"none", "done"} /\ img_task \in {"none", "done"}
    /\ o_exit = "normal" =>
          o_result = PipelineResult(TRUE, tts_results, image_descriptions)

\* The description task failed, the synthesis results are in the result.
C9_Witness ==
    /\ o_exit = "normal"
    /\ img_task = "done" /\ ~img_ret.success
    /\ tts_task = "done" /\ tts_ret.success
    /\ o_result.tts_results = [successful_chapters |-> MaxChapters]
    /\ o_result.image_descriptions = <<>>
    /\ o_result.epub_success

\* The converse case: synthesis failed, the descriptions are in the result.
C9_WitnessConverse ==
    /\ o_exit = "normal"
    /\ tts_task = "done" /\ ~tts_ret.success
    /\ img_task = "done" /\ img_ret.success
    /\ o_result.tts_results = None
    /\ o_result.image_descriptions # <<>>

\* C10: every enabled task has been submitted to the pool before the
\* orchestrator waits for the first result, and no task is held back by the
\* state of the other one.
C10_BothSubmittedBeforeJoin ==
    /\ o_pc \in {"join_images", "join_tts"} =>
          /\ enable_images /\ has_image_pipeline /\ n_images > 0
                => img_task # "none"
          /\ enable_tts /\ has_tts_pipeline => tts_task # "none"
    /\ img_task = "submitted" => ENABLED ImagesTaskStart
    /\ tts_task = "submitted" => ENABLED TTSTaskStart
    /\ img_task = "running" => ENABLED ImagesTaskFinish("descriptions", <<8>>)
    /\ tts_task = "running" => ENABLED TTSTaskFinish("summary", 0)

\* Both tasks are in progress at the same time.
C10_Witness ==
    /\ img_task = "running" /\ tts_task = "running"
    /\ o_pc = "join_images"

\* Elements of a sequence
Range(seq) == {seq[k] : k \in 1..Len(seq)}

\* C11: a start() call on a running tracker creates no thread and changes
\* nothing, a stop() call on a stopped tracker changes nothing, and as long
\* as no stop() has given up its join at most one consumer thread is alive.
C11_StartStopIdempotent ==
    /\ [](~join_timed_out => Cardinality(Alive) <= 1)
    /\ [][last_call # "start_noop" /\ last_call' = "start_noop" =>
             /\ running /\ running'
             /\ UNCHANGED <<c_pc, event_processor_thread, events, stop_pc>>]_vars
    /\ [][last_call # "stop_noop" /\ last_call' = "stop_noop" =>
             /\ ~running /\ ~running'
             /\ UNCHANGED <<c_pc, event_processor_thread, events, stop_pc>>]_vars

\* start() was called on the running tracker: one consumer thread is alive.
C11_Witness ==
    /\ last_call = "start_noop"
    /\ running
    /\ Cardinality(Alive) = 1
    /\ Cardinality({t \in Threads : c_pc[t] # "unborn"}) = 1

\* The events of one producer appear in seq in the order of their emission
InEmissionOrder(seq) ==
    \A i, j \in 1..Len(seq) :
        i < j /\ seq[i].producer = seq[j].producer => seq[i].seq < seq[j].seq

\* C12: the events of one producer reach every subscriber in the order of
\* their emission, and their stats updates are applied in that order.
C12_PerProducerOrder ==
    /\ InEmissionOrder(applied)
    /\ \A cb \in Subscribers : InEmissionOrder(delivered[cb])

C14_CallbacksNeverConcurrent == Cardinality(InCallback) <= 1

\* C15: a consumer thread inside a callback does not hold the lock, and the
\* calls a callback can make into the tracker can be made.
C15_CallbacksOutsideLock ==
    \A t \in InCallback :
        /\ lock # t
        /\ \A cb \in Subscribers :
              ENABLED Subscribe(cb) /\ ENABLED Unsubscribe(cb)

\* A callback is executing and the list of subscribers has changed since
\* the consumer copied it.
C15_Witness ==
    \E t \in InCallback :
        /\ lock = Free
        /\ subscribers # c_subs[t]

\* C16: emit_event can be made in every state of the tracker, and it changes
\* the queue only.
C16_EmitOnlyEnqueues ==
    /\ [](Emitted < MaxEmits =>
            \A p \in Producers : \A e \in BusEvents(p, p_seq[p] + 1) :
                ENABLED EmitEvent(p, e, MaxEmits))
    /\ [][p_seq' # p_seq =>
             /\ Len(events') = Len(events) + 1
             /\ UNCHANGED <<running, stats, recent_events, subscribers, lock,
                            c_pc, c_event, c_subs, c_idx, stop_pc, delivered,
                            applied>>]_vars

\* An event was emitted on a stopped tracker whose consumer thread is still
\* inside a callback.
C16_Witness ==
    /\ ~running
    /\ InCallback # {}
    /\ Emitted = MaxEmits
    /\ Len(events) >= 2
    /\ events[Len(events)].producer \in Producers

\* The processed events of one pipeline, in the order of the stats updates
AppliedOf(pl) == SelectSeq(applied, LAMBDA e : e.pipeline = pl)

\* Start(total=n) followed by n Complete events and nothing else
StartThenCompletes(evs) ==
    /\ Len(evs) >= 1
    /\ evs[1].event_type = "start"
    /\ HasKey(evs[1].data, "total_items")
    /\ Len(evs) = evs[1].data.total_items + 1
    /\ \A k \in 2..Len(evs) : evs[k].event_type = "complete"

\* C17: the stats update of a Complete event adds exactly 1 to the
\* completed_items of its pipeline, and after Start(total=n) and n Complete
\* events completed_items is n and the progress is 100 percent.
C17_CompleteAddsOne ==
    /\ [][\A t \in Threads :
             /\ c_pc[t] = "update" /\ c_pc'[t] = "store"
             /\ c_event[t].event_type = "complete"
             => stats'[c_event[t].pipeline].completed_items =
                   stats[c_event[t].pipeline].completed_items + 1]_vars
    /\ [](\A pl \in PipelineType :
            StartThenCompletes(AppliedOf(pl)) =>
                /\ stats[pl].completed_items = stats[pl].total_items
                /\ progress_percentage(stats[pl]) = 100)

\* Start(total=MaxTotal) and MaxTotal Complete events were processed for
\* the synthesis pipeline.
C17_Witness ==
    /\ StartThenCompletes(AppliedOf("tts"))
    /\ stats["tts"].total_items = MaxTotal
    /\ stats["tts"].completed_items = MaxTotal
    /\ progress_percentage(stats["tts"]) = 100

\* All queued events are processed: the queue is empty and no consumer
\* thread has an event in hand.
Drained ==
    /\ events = <<>>
    /\ \A t \in Threads : c_pc[t] \in {"unborn", "loop", "get", "dead"}

\* A Start event with a total was processed for the pipeline
ReceivedStartWithTotal(pl) ==
    \E k \in 1..Len(applied) :
        /\ applied[k].pipeline = pl
        /\ applied[k].event_type = "start"
        /\ HasKey(applied[k].data, "total_items")

\* C18: when the tracker has drained its queue, completed_items is at most
\* total_items for every pipeline that received a Start event with a total.
C18_CompletedWithinTotal ==
    Drained =>
        \A pl \in PipelineType :
            ReceivedStartWithTotal(pl) =>
                stats[pl].completed_items <= stats[pl].total_items

\* The events a run of process_chunk / process_image for item i has put on
\* the queue
ItemEvents(producer, i) ==
    SelectSeq(events, LAMBDA e : e.producer = producer /\ e.seq = i)

\* A Start event, then the one terminal event that fits the result
StartThenTerminal(evs, succeeded) ==
    /\ Len(evs) = 2
    /\ evs[1].event_type = "start"
    /\ evs[2].event_type = IF succeeded THEN "complete" ELSE "error"

\* C19: every item the batch runner has processed has a Start event followed
\* by exactly one terminal event, Complete if it succeeded and Error if it
\* failed; an item in progress has its Start event only.
C19_StartThenOneTerminal ==
    /\ \A i \in 1..tb_n :
          /\ tb_chunk[i] = "running" =>
                Len(ItemEvents("process_chunk", i)) = 1
          /\ tb_chunk[i] = "returned" =>
                StartThenTerminal(ItemEvents("process_chunk", i),
                                  tb_result[i].success)
    /\ \A i \in 1..ib_n :
          /\ ib_image[i] = "running" =>
                Len(ItemEvents("process_image", i)) = 1
          /\ ib_image[i] = "returned" =>
                StartThenTerminal(ItemEvents("process_image", i),
                                  i \notin ib_failed)

\* C20: with force_sequential set on the model, batch_process takes the
\* sequential path whatever the caller passed for parallel: at most one
\* chunk is in progress, and a chunk starts only after all chunks before it
\* are collected.
C20_ForceSequentialOneAtATime ==
    force_sequential =>
        /\ tb_pc # "parallel"
        /\ Cardinality(TtsRunning) <= 1
        /\ \A i \in TtsRunning : \A j \in 1..(i - 1) : j \in tb_collected

\* parallel=True was passed for several chunks and force_sequential is set:
\* the second chunk is in progress after the first one was collected.
C20_Witness ==
    /\ force_sequential
    /\ tb_parallel
    /\ tb_n > 1
    /\ tb_chunk[2] = "running"
    /\ 1 \in tb_collected

\* C21: a failed synthesis attempt whose error matches no Metal keyword
\* leaves degradation_level, use_mlx_audio and metal_error_count as they
\* were, and the call goes on with the next attempt as long as one is left
\* (after the last one it gives up with "failed after ... attempts").
C21_TransientRetriesWithoutDegradation ==
    [][(/\ spc = "loop"
        /\ <<attempt, spc>>' # <<attempt, spc>>
        /\ outcome' # "audio"
        /\ last_failure' \in {"transient", "fatal"})
       => /\ degradation_level' = degradation_level
          /\ use_mlx_audio' = use_mlx_audio
          /\ metal_error_count' = metal_error_count
          /\ IF attempt < max_retries
             THEN spc' = "loop" /\ attempt' = attempt + 1
             ELSE spc' = "idle" /\ error_kind' = "exhausted"]_vars

\* A call on an undegraded MLX-Audio instance is retrying after a transient
\* error of its first attempt.
C21_Witness ==
    /\ spc = "loop" /\ attempt = 1 /\ last_failure = "transient"
    /\ last_path = "mlx_audio" /\ nonmetal_failures = 1
    /\ degradation_level = 0 /\ use_mlx_audio /\ metal_error_count = 0

\* C22: no retry loop goes on after a fatal error: a call that is about to
\* make another attempt has not seen a configuration, authentication or
\* quota error in its latest attempt.
C22_FatalNeverRetried ==
    /\ spc = "loop" => last_failure # "fatal"
    /\ api_pc = "loop" => ~ApiFatal(api_last_failure)
    /\ hs_pc = "loop" => ~ApiFatal(hs_last_failure)

\* The stats update of thread t for an event of type ty is this step
UpdatesFor(t, ty) ==
    /\ c_pc[t] = "update" /\ c_pc'[t] = "store"
    /\ c_event[t].event_type = ty

\* The stats of all pipelines but pl are left alone by this step
OtherPipelinesKept(pl) ==
    \A other \in PipelineType \ {pl} : stats'[other] = stats[other]

\* C23: the stats update of a Start event sets total_items and current_item
\* of its pipeline to the payload's values for the keys the payload has,
\* keeps them for the keys it lacks, and keeps completed_items, errors and
\* warnings.
C23_StartSetsTotalAndCurrentOnly ==
    [][\A t \in Threads : UpdatesFor(t, "start") =>
          LET e == c_event[t]
              old == stats[e.pipeline]
              new == stats'[e.pipeline]
          IN  /\ new.total_items =
                    IF "total_items" \in DOMAIN e.data
                    THEN e.data.total_items ELSE old.total_items
              /\ new.current_item =
                    IF "current_item" \in DOMAIN e.data
                    THEN e.data.current_item ELSE old.current_item
              /\ new.completed_items = old.completed_items
              /\ new.errors = old.errors
              /\ new.warnings = old.warnings]_vars

\* A Start event with both keys was processed after a Complete and an Error
\* event of the same pipeline: the total is revised and the progress is kept.
C23_Witness ==
    /\ Len(AppliedOf("tts")) = 3
    /\ AppliedOf("tts")[1].event_type = "complete"
    /\ AppliedOf("tts")[2].event_type = "error"
    /\ AppliedOf("tts")[3].event_type = "start"
    /\ stats["tts"] = [total_items |-> MaxTotal, completed_items |-> 1,
                       current_item |-> "item", errors |-> 1, warnings |-> 0]

\* C24: the stats update of an Error event adds exactly 1 to errors, the one
\* of a Warning event adds exactly 1 to warnings; every other field of that
\* pipeline's stats and the stats of the other pipelines stay as they were.
C24_ErrorAndWarningCountOnly ==
    [][\A t \in Threads :
          /\ UpdatesFor(t, "error") =>
                /\ stats'[c_event[t].pipeline] =
                      [stats[c_event[t].pipeline] EXCEPT !.errors = @ + 1]
                /\ OtherPipelinesKept(c_event[t].pipeline)
          /\ UpdatesFor(t, "warning") =>
                /\ stats'[c_event[t].pipeline] =
                      [stats[c_event[t].pipeline] EXCEPT !.warnings = @ + 1]
                /\ OtherPipelinesKept(c_event[t].pipeline)]_vars

\* An Error and a Warning event were processed after a Start event: the
\* counters are 1 and the total and the current item are those of the Start.
C24_Witness ==
    /\ Len(AppliedOf("image")) = 3
    /\ AppliedOf("image")[1].event_type = "start"
    /\ AppliedOf("image")[3].event_type = "warning"
    /\ stats["image"] = [total_items |-> MaxTotal, completed_items |-> 0,
                         current_item |-> "item", errors |-> 1, warnings |-> 1]
    /\ stats["tts"] = PipelineStats

\* C25: every dictionary get_overall_stats returned has in total_items,
\* completed_items, errors and warnings the sums of those fields of the
\* stats of TTS, IMAGE and EPUB as they were at the call; the stats of
\* OVERALL are not in the sums.
C25_OverallSumsThreePipelines ==
    \A k \in 1..Len(overall_returned) :
        LET sts == overall_returned[k].read
            ret == overall_returned[k].returned
        IN  /\ ret.total_items = sts["tts"].total_items
                  + sts["image"].total_items + sts["epub"].total_items
            /\ ret.completed_items = sts["tts"].completed_items
                  + sts["image"].completed_items + sts["epub"].completed_items
            /\ ret.errors = sts["tts"].errors + sts["image"].errors
                  + sts["epub"].errors
            /\ ret.warnings = sts["tts"].warnings + sts["image"].warnings
                  + sts["epub"].warnings

\* get_overall_stats was called when OVERALL had an error counted and EPUB
\* had progress: the sums have the progress and not the error.
C25_Witness ==
    /\ Len(overall_returned) = 1
    /\ overall_returned[1].read["overall"].errors = 1
    /\ overall_returned[1].read["epub"].completed_items = 1
    /\ overall_returned[1].returned =
          [total_items |-> MaxTotal, completed_items |-> 1, errors |-> 0,
           warnings |-> 0]

\* The placeholders of the image with this path in a token list
PlaceholdersOf(tokens, path, patterns) ==
    {k \in 1..Len(tokens) :
        tokens[k].kind \in patterns /\ tokens[k].arg = PathName(path)}

\* The low-confidence part of C26 for one list of descriptions
LowConfidenceKept ==
    \A d \in Range(int_descs) :
        d.confidence <= confidence_threshold =>
            /\ \A k \in PlaceholdersOf(int_text, d.image_path, TextPatterns) :
                   int_updated_text[k] = int_text[k]
            /\ \A k \in PlaceholdersOf(int_chapter, d.image_path,
                                        TextPatterns) :
                   int_updated_chapter[k] = int_chapter[k]

\* C26: in the result of the integration a placeholder is replaced only if
\* a description of an image with its name has confidence above 0.5, and
\* every placeholder of an image whose description has confidence 0.5 or
\* less is in the text and in the chapter as it was.
C26_LowConfidencePlaceholderStays ==
    int_pc = "returned" =>
        /\ Len(int_updated_text) = Len(int_text)
        /\ Len(int_updated_chapter) = Len(int_chapter)
        /\ \A k \in 1..Len(int_text) :
               int_updated_text[k] # int_text[k] =>
                   \E d \in Range(int_descs) :
                       /\ PathName(d.image_path) = int_text[k].arg
                       /\ d.confidence > confidence_threshold
        /\ LowConfidenceKept

\* The same holds when no two described images have the same file name
DistinctNamesKeepLowConfidence ==
    /\ int_pc = "returned"
    /\ \A d1, d2 \in Range(int_descs) :
          PathName(d1.image_path) = PathName(d2.image_path) => d1 = d2
    => LowConfidenceKept

\* No callback takes forever: a thread inside a callback leaves it
NoCallbackBlocksForever == \A t \in Threads : WF_c_pc(CallbackEnd(t))

\* C27: stop() puts the shutdown event on the queue before it joins; once
\* called it returns, whether or not a callback ever returns; and if every
\* callback returns, a consumer thread that is alive while the tracker is
\* stopped ends (unless the tracker is started again first).
C27_StopReturnsAndConsumerEnds ==
    /\ [][stop_pc = "sentinel" /\ stop_pc' = "join" =>
             events' = Append(events, ShutdownEvent)]_vars
    /\ (stop_pc # "idle") ~> (stop_pc = "idle")
    /\ NoCallbackBlocksForever =>
          \A t \in Threads :
              (~running /\ t \in Alive) ~> (t \notin Alive \/ running)

\* stop() has returned after its join timed out on a consumer that is
\* inside a callback, and the tracker is still stopped.
C27_Witness ==
    /\ last_call = "stop" /\ stop_pc = "idle" /\ ~running
    /\ join_timed_out
    /\ event_processor_thread \in InCallback

\* stop() has returned after the consumer took the shutdown event and ended.
C27_WitnessJoined ==
    /\ last_call = "stop" /\ stop_pc = "idle" /\ ~running
    /\ ~join_timed_out
    /\ Alive = {}
    /\ events = <<>>
    /\ Len(applied) = MaxEmits

\* The events the producers of the life cycle specification can emit
AllBusEvents ==
    UNION {BusEvents(p, k) : p \in Producers, k \in 1..MaxEmits}

\* start() has been called after a stop()
Restarted == Cardinality({t \in Threads : c_pc[t] # "unborn"}) >= 2

\* C28: after a stop() and a later start(), exactly one consumer thread is
\* alive whenever the tracker is running, and every event that is on the
\* queue of the running tracker gets its stats update and reaches the
\* subscriber (unless the tracker is stopped again first).
C28_RestartWorks ==
    /\ [](Restarted /\ running => Cardinality(Alive) = 1)
    /\ NoCallbackBlocksForever =>
          \A e \in AllBusEvents :
              (Restarted /\ running /\ e \in Range(events))
                  ~> (e \in Range(applied) \/ ~running)

\* C29: when a consumer thread exits on a stopped tracker, no event of a
\* producer is left on the queue (producers emit only while the tracker
\* is running, so every such event was emitted before stop() was called).
C29_StopLosesNoEvent ==
    [][\A t \in Threads :
          t \in Alive /\ c_pc'[t] = "dead" /\ ~running =>
              \A k \in 1..Len(events') : IsShutdown(events'[k])]_vars

\* C30: on a tracker that is running (and was never stopped) the consumer
\* thread is alive, whatever the producers emitted and whichever callbacks
\* raised.
C30_ConsumerNeverExitsWhileRunning ==
    running => event_processor_thread \in Alive

\* C31: no stats update lowers completed_items of a pipeline while a batch
\* runs (one batch call per behaviour, sequential or parallel).
C31_CompletedNeverDecreases ==
    [][\A pl \in PipelineType :
          stats'[pl].completed_items >= stats[pl].completed_items]_vars

\* C32: once the Start event of the batch (the first event of its pipeline)
\* has been processed, total_items of the pipeline is the total of that
\* event, whatever events of the items were processed after it.
C32_TotalStaysBatchTotal ==
    \A pl \in PipelineType :
        AppliedOf(pl) # <<>> =>
            stats[pl].total_items = AppliedOf(pl)[1].data.total_items

\* C33: metal_error_count changes only by one, upwards, when an attempt
\* failed with a Metal error (a new synthesize call leaves it alone); and the
\* Metal error that brings it to the limit or above ends the call with an
\* error in that iteration, whatever attempts of the loop are left.
C33_FaultCounterCumulative ==
    /\ [][/\ metal_error_count' >= metal_error_count
          /\ metal_error_count' # metal_error_count =>
                /\ metal_error_count' = metal_error_count + 1
                /\ spc = "loop"
                /\ last_failure' = "metal"]_vars
    /\ [][/\ metal_error_count' > metal_error_count
          /\ metal_error_count' >= metal_error_limit
          => /\ spc' = "idle"
             /\ outcome' = "error"
             /\ error_kind' = "too_many_metal"
             /\ attempt' = attempt]_vars

\* The third Metal error of the instance came in the first attempt of a
\* later call: the call failed with all its retries left.
C33_Witness ==
    /\ calls >= 2
    /\ spc = "idle"
    /\ metal_error_count = metal_error_limit
    /\ error_kind = "too_many_metal"
    /\ attempt = 0
    /\ attempts_made = 1

\* C34: when process_epub_complete has returned, the results of a batch
\* that completed successfully are in the PipelineResult: the return is the
\* normal one and its field holds what the task returned.
C34_ObtainedResultsReturned ==
    o_pc = "returned" =>
        /\ tts_task = "done" /\ tts_ret.success =>
              /\ o_exit = "normal"
              /\ o_result.tts_results = tts_ret.results
        /\ img_task = "done" /\ img_ret.success =>
              /\ o_exit = "normal"
              /\ o_result.image_descriptions = img_ret.descriptions

\* An exception was raised in extraction, in a join, in integration or in the
\* final outputs (the last two leave through the handler)
ExceptionRaised ==
    \/ extraction = "raised"
    \/ img_task = "raised"
    \/ tts_task = "raised"
    \/ o_exit = "exception"

\* C35 as stated: process_epub_complete returns, and after any exception
\* the returned extraction result has success false.
C35_AnyExceptionGivesFailedResult ==
    o_pc = "returned" =>
        /\ o_exit \in {"normal", "extraction_failed", "exception"}
        /\ ExceptionRaised => ~o_result.epub_success

\* C35, amended: process_epub_complete returns; an exception in extraction,
\* integration or the final outputs gives the handler's result with success
\* false and no sub-pipeline results; an exception of a join is caught at
\* the join: that task's results stay empty and the function goes on, to
\* the normal return with success true unless a later stage raises.
C35_ExceptionsBecomeResults ==
    /\ o_pc = "returned" =>
          /\ o_exit \in {"normal", "extraction_failed", "exception"}
          /\ extraction = "raised" => o_exit = "exception"
          /\ o_exit = "exception" => o_result = PipelineResult(FALSE, None, None)
          /\ o_exit = "normal" =>
                /\ o_result.epub_success
                /\ img_task = "raised" => o_result.image_descriptions = <<>>
                /\ tts_task = "raised" => o_result.tts_results = None
    /\ img_task = "raised" /\ o_pc = "join_tts" => image_descriptions = <<>>
    /\ tts_task = "raised" /\ o_pc = "integrate" => tts_results = None

\* The handler ran after a join had caught the exception of a task.
C35_Witness ==
    /\ o_pc = "returned"
    /\ o_exit = "exception"
    /\ extraction = "ok"
    /\ tts_task = "raised"
    /\ img_task = "done" /\ img_ret.success
    /\ ~o_result.epub_success

\* The normal return after the exception of a join.
C35_WitnessJoin ==
    /\ o_pc = "returned"
    /\ o_exit = "normal"
    /\ img_task = "raised"
    /\ o_result.epub_success

\* The step of thread t that stores its event in the recent events
StoresRecent(t) == c_pc[t] = "store" /\ c_pc'[t] = "copy"

\* C36: the stats update of an event changes the stats of the event's
\* pipeline only and no recent-event buffer; storing the event changes the
\* buffer of the event's pipeline only and no stats; and no other step
\* changes stats or buffers.
C36_OnlyOwnPipelineChanges ==
    [][/\ \A t \in Threads :
             /\ c_pc[t] = "update" /\ c_pc'[t] = "store" =>
                   /\ OtherPipelinesKept(c_event[t].pipeline)
                   /\ recent_events' = recent_events
             /\ StoresRecent(t) =>
                   /\ stats' = stats
                   /\ \A other \in PipelineType \ {c_event[t].pipeline} :
                         recent_events'[other] = recent_events[other]
       /\ stats' # stats =>
             \E t \in Threads : c_pc[t] = "update" /\ c_pc'[t] = "store"
       /\ recent_events' # recent_events =>
             \E t \in Threads : StoresRecent(t)]_vars

\* Events of the two producers were processed alternately: each pipeline
\* has its own events in its buffer and its own counters.
C36_Witness ==
    /\ Len(applied) = 3
    /\ applied[1].pipeline = "tts"
    /\ applied[2].pipeline = "image"
    /\ applied[3].pipeline = "tts"
    /\ recent_events["tts"] = <<applied[1], applied[3]>>
    /\ recent_events["image"] = <<applied[2]>>
    /\ stats["tts"].completed_items = 2
    /\ stats["image"].errors = 1
    /\ stats["epub"] = PipelineStats /\ stats["overall"] = PipelineStats

\* The last n elements of a sequence
LastN(seq, n) ==
    IF Len(seq) <= n THEN seq ELSE SubSeq(seq, Len(seq) - n + 1, Len(seq))

\* The events of pipeline pl whose stats update and store are both done:
\* the event of a thread between the two is the last one applied
StoredOf(pl) ==
    LET done == AppliedOf(pl)
    IN  IF \E t \in Threads : c_pc[t] = "store" /\ c_event[t].pipeline = pl
        THEN SubSeq(done, 1, Len(done) - 1) ELSE done

\* C37: the buffer of each pipeline holds at most max_recent_events events,
\* and they are the last processed events of the pipeline in processing
\* order; an event is stored after its stats update, before any subscriber
\* has got it, and a subscriber gets an event that is the newest of its
\* buffer.
C37_RecentEventsAreLastTen ==
    /\ [](\A pl \in PipelineType :
             /\ Len(recent_events[pl]) <= max_recent_events
             /\ recent_events[pl] = LastN(StoredOf(pl), max_recent_events))
    /\ [][\A t \in Threads : StoresRecent(t) =>
             /\ applied # <<>>
             /\ applied[Len(applied)] = c_event[t]
             /\ \A cb \in Subscribers : c_event[t] \notin Range(delivered[cb])]_vars
    /\ [][\A cb \in Subscribers : delivered'[cb] # delivered[cb] =>
             LET e == delivered'[cb][Len(delivered'[cb])]
                 buffer == recent_events[e.pipeline]
             IN  buffer # <<>> /\ buffer[Len(buffer)] = e]_vars

\* Eleven events of one pipeline were processed: the buffer holds the last
\* ten, the first one is gone, and the subscriber got the newest.
C37_Witness ==
    /\ Len(AppliedOf("tts")) = max_recent_events + 1
    /\ Len(recent_events["tts"]) = max_recent_events
    /\ recent_events["tts"][1].seq = 2
    /\ recent_events["tts"][max_recent_events].seq = max_recent_events + 1
    /\ recent_events["image"] # <<>>
    /\ delivered["logger"] # <<>>
    /\ delivered["logger"][Len(delivered["logger"])].seq = max_recent_events + 1

\* C38: in every iteration of the retry loop the synthesis call comes
\* directly after a run of the cleanup, and every iteration that made an
\* attempt (the first, a retry, one after a degradation) has the two.
C38_CleanupBeforeEveryAttempt ==
    /\ [](\A k \in 1..Len(iter_steps) :
             iter_steps[k] = "synthesis" =>
                 k > 1 /\ iter_steps[k - 1] = "cleanup")
    /\ [][attempts_made' = attempts_made + 1 =>
             /\ Len(iter_steps') >= 2
             /\ iter_steps'[1] = "cleanup"
             /\ iter_steps'[2] = "synthesis"]_vars

\* A retry after a degradation: the attempt that followed a handled Metal
\* error ran on the direct path after its cleanup and returned audio.
C38_Witness ==
    /\ outcome = "audio"
    /\ handled_in_call = 1
    /\ degradation_level = 1
    /\ attempt = 1
    /\ attempts_made = 2
    /\ iter_steps = <<"cleanup", "synthesis">>

\* C39: the stats update of a Complete event leaves current_item of its
\* pipeline empty, with or without the key current_item in the payload.
C39_CompleteClearsCurrentItem ==
    [][\A t \in Threads : UpdatesFor(t, "complete") =>
          stats'[c_event[t].pipeline].current_item = ""]_vars

\* It does so for every Complete event whose payload has the key, as the
\* events of create_complete_event have, also with an empty item name
CompleteWithKeyClearsCurrentItem ==
    [][\A t \in Threads :
          /\ UpdatesFor(t, "complete")
          /\ HasKey(c_event[t].data, "current_item")
          => stats'[c_event[t].pipeline].current_item = ""]_vars

\* The list is the newest events of the buffer it read, newest first
NewestFirst(r) ==
    \A k \in 1..Len(r.returned) :
        r.returned[k] = r.read[Len(r.read) - k + 1]

\* C40: every get_recent_events call returned at most `limit` events, for
\* every limit from 0 upwards, and returned them most recent first.
C40_AtMostLimitNewestFirst ==
    \A k \in 1..Len(recent_returned) :
        LET r == recent_returned[k]
        IN  /\ Len(r.returned) <= r.limit
            /\ NewestFirst(r)

\* For a limit of 1 or more the call returns that many events, or the whole
\* buffer if it is shorter, newest first
PositiveLimitRespected ==
    \A k \in 1..Len(recent_returned) :
        LET r == recent_returned[k]
        IN  r.limit >= 1 =>
               /\ Len(r.returned) =
                     IF Len(r.read) < r.limit THEN Len(r.read) ELSE r.limit
               /\ NewestFirst(r)

\* A call with limit 0 returns the whole buffer, newest first
ZeroLimitReturnsAll ==
    \A k \in 1..Len(recent_returned) :
        LET r == recent_returned[k]
        IN  r.limit = 0 => Len(r.returned) = Len(r.read) /\ NewestFirst(r)

====
